---- MODULE Spec2Model ----
(***************************************************************************)
(* Model of the Smartsheet synchronisation jobs of                         *)
(* identity-engineering-sync-app: the three sync jobs (identity-foundation *)
(* -sync, identity-ground-improvement-sync, identity-insulation-sync), the *)
(* project-missing check (its two modules, __init__.py and                  *)
(* __init__copy1.py), the status update and the HTTP-triggered             *)
(* project-smartsheet-updater.                                             *)
(***************************************************************************)
EXTENDS Integers, Sequences, FiniteSets, TLC

VARIABLES
    job,            \* which function app entry point is running
    pc,             \* position of the invocation in its main()
    DRY_RUN,        \* the job's DRY_RUN_* flag, read at import time
    source_sheet,   \* rows of the source sheet, in sheet order
    dest_sheet,     \* rows of the sync jobs' destination sheet, in sheet order
    source_rows,    \* result of list_all_source_project_rows()
    dest_index,     \* result of index_dest_by_tank_and_*()
    inserts,        \* first component of build_operations()
    updates,        \* the update operations being written
    DEST_SHEETS,    \* DEST_SHEETS_JSON: the destination sheet descriptors
    dest_store,     \* sheet id -> rows, for the sheets addressed by id
    src_map,        \* src_keys / src_map: source key -> source status
    cursor,         \* position of `for dest in DEST_SHEETS` / `for obj in payload`;
                    \* `page` of the `while True` of the sync jobs' indexer
    offset,         \* offset of the chunk being written
    attempt,        \* `for attempt in range(2)`
    total_updates,  \* the count the summary line reports
    calls,          \* HTTP requests issued and time.sleep() calls, in order
    faults,         \* failures the sheet service may still answer with
    plans,          \* per destination sheet: the rows fetched, the updates planned;
                    \* per job object of the updater: the sheet get_sheet() returned
    payload,        \* req.get_json() of the updater
    results,        \* the updater's results list
    status_code,    \* status_code of the updater's HttpResponse (0: none yet)
    sql,            \* the statement log_audit() of the updater is about to execute ("": none)
    edits,          \* writes of other clients of the sheet service the request may still see
    dry_report,     \* the counts an earlier dry run on the same sheets reported
    other,          \* the locals of another invocation of the same sync job: suspended, or finished
    title_cache     \* the sheet ids get_column_titles holds in its lru_cache in this process

envVars == <<job, DRY_RUN, dry_report, other, title_cache, edits>>
syncVars == <<source_rows, dest_index, inserts>>
keyVars == <<DEST_SHEETS, src_map, total_updates, plans>>
updaterVars == <<payload, results, status_code, sql>>

vars == <<job, pc, DRY_RUN, source_sheet, dest_sheet, source_rows,
          dest_index, inserts, updates, DEST_SHEETS, dest_store, src_map,
          cursor, offset, attempt, total_updates, calls, faults, plans, payload,
          results, status_code, sql, dry_report, other, title_cache, edits>>

(***************************************************************************)
(* Python values.  A cell value is None, a str, a number or a bool; they    *)
(* are kept apart so that "" == None and "10" == 10 are false, as in       *)
(* Python.                                                                 *)
(***************************************************************************)
None == [t |-> "none"]
Str(s) == [t |-> "str", s |-> s]
Num(n) == [t |-> "num", n |-> n]
Bool(b) == [t |-> "bool", b |-> b]

\* str.strip() on the strings of the model: the padded literals and what
\* stripping leaves of them; every other string has no outer whitespace.
StripTable ==
    (" " :> "") @@ (" 10" :> "10") @@ ("10 " :> "10") @@
    (" Phoenix " :> "Phoenix") @@ (" Required " :> "Required") @@
    ("Front-End - Site Work " :> "Front-End - Site Work") @@
    ("Ground Improvements " :> "Ground Improvements") @@
    ("Insulation " :> "Insulation") @@
    (" Austin " :> "Austin") @@ ("TX " :> "TX") @@ (" Active " :> "Active")

strip(s) == IF s \in DOMAIN StripTable THEN StripTable[s] ELSE s

\* str.lower() on the strings of the model.
LowerTable ==
    ("Austin" :> "austin") @@ ("TX" :> "tx") @@ ("Dallas" :> "dallas") @@
    ("T-7" :> "t-7") @@ ("Phoenix" :> "phoenix") @@ ("Active" :> "active") @@
    ("None" :> "none") @@ ("AUSTIN" :> "austin")

lower(s) == IF s \in DOMAIN LowerTable THEN LowerTable[s] ELSE s

\* bool(v): None, "", 0 and False are falsy.
truthy(v) == v # None /\ v # Str("") /\ v # Num(0) /\ v # Bool(FALSE)

\* str(v)
py_str(v) ==
    CASE v.t = "none" -> "None"
      [] v.t = "str"  -> v.s
      [] v.t = "num"  -> ToString(v.n)
      [] v.t = "bool" -> IF v.b THEN "True" ELSE "False"

\* (cells.get(col) or {}).get("value"): None when the row has no such cell.
cell_value(cells, col) == IF col \in DOMAIN cells THEN cells[col] ELSE None

\* str((cells.get(col) or {}).get("value") or "").strip()
str_value(cells, col) ==
    LET v == cell_value(cells, col)
    IN  strip(IF truthy(v) THEN py_str(v) ELSE "")

\* val in (None, "")
is_blank(v) == v = None \/ v = Str("")

\* normalize(val): None -> "", str -> stripped, anything else -> str(val).
normalize(v) ==
    CASE v.t = "none" -> ""
      [] v.t = "str"  -> strip(v.s)
      [] OTHER        -> py_str(v)


\* No second invocation is under way.
NoInvocation == [pc |-> "none"]

\* The locals of an invocation of main().
Invocation(id, p, rows, idx, ins, ups, off, att, page) ==
    [id |-> id, pc |-> p, source_rows |-> rows, dest_index |-> idx,
     inserts |-> ins, updates |-> ups, offset |-> off, attempt |-> att,
     page |-> page]

(***************************************************************************)
(* Configuration of the three sync jobs.  Column identifiers are kept as   *)
(* the digit strings of the source.                                        *)
(***************************************************************************)
SyncJobs == {"foundation", "ground", "insulation"}

SRC_TANK_COL == "3633417232797572"
SRC_ROW_COL == "537192488980356"
SRC_ORDER_COL == "8699966813589380"
SRC_FRONTEND_COL == "5744479558127492"
SRC_GROUND_IMPROVEMENTS_COL == "7996279371812740"
SRC_INSULATION_COL == "959404954046340"
SRC_NTP_DATE_COL == "3844523465330564"
SRC_CONTRACT_DAYS_COL == "8348123092701060"
SRC_NTP_COMPLETION_DATE_COL == "1029773698224004"
SRC_SITE_NAME_COL == "8137016860168068"

\* The source column a job reads its insertion gate (and tracked status) from.
SRC_GATE_COL(j) ==
    CASE j = "foundation" -> SRC_FRONTEND_COL
      [] j = "ground"     -> SRC_GROUND_IMPROVEMENTS_COL
      [] j = "insulation" -> SRC_INSULATION_COL

DEST_TANK_COL(j) == IF j = "insulation" THEN "7584488200294276" ELSE "492931382988676"
DEST_ROW_COL(j) == IF j = "insulation" THEN "1136952015015812" ELSE "5102084126625668"
DEST_NTP_DATE_COL(j) == IF j = "insulation" THEN "1673513689370500" ELSE "1055881336409988"
DEST_CONTRACT_DAYS_COL(j) == IF j = "insulation" THEN "6177113316740996" ELSE "5559480963780484"
DEST_NTP_COMPLETION_DATE_COL(j) == IF j = "insulation" THEN "3925313503055748" ELSE "3307681150095236"
DEST_SITE_NAME_COL(j) == IF j = "insulation" THEN "1954988666081156" ELSE "4996531010359172"
DEST_GROUND_IMPROVEMENTS_COL == "1052563474173828"
DEST_INSULATION_COL == "3388751828701060"
\* The destination column holding the tracked status of the list-indexed jobs.
DEST_TRACKED_COL(j) == IF j = "insulation" THEN DEST_INSULATION_COL ELSE DEST_GROUND_IMPROVEMENTS_COL
DEST_PRIMERY_COL(j) == IF j = "insulation" THEN "8710388107136900" ELSE "1618831289831300"
DEST_ORDER_COL(j) == IF j = "insulation" THEN "6766451549228932" ELSE "598484499255172"
DEST_ORDER_VAL(j) ==
    CASE j = "foundation" -> "00002 - Front-End - Site Work"
      [] j = "ground"     -> "0003 - Ground Improvements"
      [] j = "insulation" -> "0008 - Insulation"

ROW_VALUE_PROJECT == "Project"
ORDER_VALUE_PROJECT == "0000 - Project"
ROW_VALUE_FRONTEND == "Front-End - Site Work"
ROW_VALUE_GROUND_IMPROVEMENTS == "Ground Improvements"
ROW_VALUE_INSULATION == "Insulation"
\* The row-type literal of the destination rows a job owns.
ROW_VALUE_DEST(j) ==
    CASE j = "foundation" -> ROW_VALUE_FRONTEND
      [] j = "ground"     -> ROW_VALUE_GROUND_IMPROVEMENTS
      [] j = "insulation" -> ROW_VALUE_INSULATION

\* COLUMN_MAP, in dict order: <<source column, destination column>>.
COLUMN_MAP(j) ==
    IF j = "insulation" THEN
      << <<"3633417232797572", "7584488200294276">>,
         <<"8137016860168068", "1954988666081156">>,
         <<"818667465691012", "6458588293451652">>,
         <<"5322267093061508", "4206788479766404">>,
         <<"2155673605066628", "5051213409898372">>,
         <<"6659273232437124", "2799413596213124">>,
         <<"4618579651284868", "547613782527876">>,
         <<"5885217046482820", "11052108173188">>,
         <<"6448166999904132", "7303013223583620">>,
         <<"3844523465330564", "1673513689370500">>,
         <<"8348123092701060", "6177113316740996">>,
         <<"1029773698224004", "3925313503055748">>,
         <<"5533373325594500", "8428913130426244">>,
         <<"4407473418751876", "4488263456477060">>,
         <<"8911073046122372", "8991863083847556">>,
         <<"1381617419112324", "4514651735543684">> >>
    ELSE
      << <<"3633417232797572", "492931382988676">>,
         <<"8137016860168068", "4996531010359172">>,
         <<"818667465691012", "2744731196673924">>,
         <<"5322267093061508", "7248330824044420">>,
         <<"2155673605066628", "6122430917201796">>,
         <<"6659273232437124", "3870631103516548">>,
         <<"4618579651284868", "5665034080046980">>,
         <<"5885217046482820", "3413234266361732">>,
         <<"6448166999904132", "8374230730887044">>,
         <<"3844523465330564", "1055881336409988">>,
         <<"8348123092701060", "5559480963780484">>,
         <<"1029773698224004", "3307681150095236">>,
         <<"5533373325594500", "7811280777465732">>,
         <<"4407473418751876", "6790933986889604">>,
         <<"8911073046122372", "1161434452676484">>,
         <<"1381617419112324", "7916833893732228">> >>

Cell(col, v) == [columnId |-> col, value |-> v]

(***************************************************************************)
(* Fetching (sync jobs)                                                    *)
(***************************************************************************)
page_size == 500

Min(a, b) == IF a < b THEN a ELSE b

\* The rows one GET /sheets/{id}?page=p&pageSize=page_size returns.
page_of(sheet, p) ==
    SubSeq(sheet, (p - 1) * page_size + 1, Min(Len(sheet), p * page_size))

\* The filter of list_all_source_project_rows on one fetched row.
is_source_candidate(j, row) ==
    LET scells == row.cells
        src_row_val == str_value(scells, SRC_ROW_COL)
        src_order_val == str_value(scells, SRC_ORDER_COL)
        src_gate_val == str_value(scells, SRC_GATE_COL(j))
    IN  /\ src_row_val = ROW_VALUE_PROJECT
        /\ src_order_val = ORDER_VALUE_PROJECT
        /\ CASE j = "foundation" -> src_gate_val = "Phoenix" \/ src_gate_val = "Subcontractor"
             [] j = "ground"     -> src_gate_val # ""
             [] j = "insulation" -> TRUE

\* list_all_source_project_rows(): the `while True` is commented out, so one
\* page (page = 1) is fetched and filtered.
list_all_source_project_rows(j, sheet) ==
    SelectSeq(page_of(sheet, 1), LAMBDA row : is_source_candidate(j, row))

EmptyDict == [k \in {} |-> None]

\* idx[key] = row
dict_set(idx, key, row) == (key :> row) @@ idx

\* idx[key].append(row) on a defaultdict(list)
dict_append(idx, key, row) ==
    (key :> (IF key \in DOMAIN idx THEN Append(idx[key], row) ELSE <<row>>)) @@ idx

\* The test both indexers apply to a destination row.
is_indexed(j, row) ==
    LET row_val == str_value(row.cells, DEST_ROW_COL(j))
        tank_val == cell_value(row.cells, DEST_TANK_COL(j))
    IN  row_val = ROW_VALUE_DEST(j) /\ ~is_blank(tank_val)

\* str(tank_val).strip()
tank_key_of(tank_val) == strip(py_str(tank_val))

\* The loop body of the indexers on one row: identity-foundation-sync
\* assigns idx[key] = row, the other two append.
index_row(j, row, idx) ==
    LET key == tank_key_of(cell_value(row.cells, DEST_TANK_COL(j)))
    IN  IF is_indexed(j, row)
        THEN (IF j = "foundation" THEN dict_set(idx, key, row)
                                  ELSE dict_append(idx, key, row))
        ELSE idx

\* The loop of the indexers over the rows of the fetched pages, in sheet
\* order: the first half of the rows, then the second half.
RECURSIVE index_rows(_, _, _)
index_rows(j, rows, idx) ==
    IF rows = <<>> THEN idx
    ELSE IF Len(rows) = 1 THEN index_row(j, rows[1], idx)
    ELSE LET half == Len(rows) \div 2
             first == index_rows(j, SubSeq(rows, 1, half), idx)
             rest  == SubSeq(rows, half + 1, Len(rows))
         IN  IF first = idx THEN index_rows(j, rest, idx)
             ELSE index_rows(j, rest, first)

\* The pages the `while True` loop of the indexers fetches: page p + 1 is
\* requested only when page p came back full.
RECURSIVE fetched_pages(_, _)
fetched_pages(sheet, p) ==
    LET batch == page_of(sheet, p)
    IN  IF Len(batch) < page_size THEN batch
        ELSE batch \o fetched_pages(sheet, p + 1)

\* index_dest_by_tank_and_frontend() / index_dest_by_tank_and_row()
index_dest(j, sheet) == index_rows(j, fetched_pages(sheet, 1), EmptyDict)

(***************************************************************************)
(* Diff / planning (sync jobs)                                             *)
(***************************************************************************)
\* find_column_diffs: the mapped column pairs whose normalized values differ.
find_column_diffs(j, src_cells, dest_cells) ==
    SelectSeq(COLUMN_MAP(j),
        LAMBDA m : normalize(cell_value(src_cells, m[1]))
                     # normalize(cell_value(dest_cells, m[2])))

\* The mapped cell payload: one cell per COLUMN_MAP entry present in scells.
RECURSIVE mapped_payload(_, _)
mapped_payload(scells, cmap) ==
    IF cmap = <<>> THEN <<>>
    ELSE (IF Head(cmap)[1] \in DOMAIN scells
          THEN <<Cell(Head(cmap)[2], scells[Head(cmap)[1]])>>
          ELSE <<>>) \o mapped_payload(scells, Tail(cmap))

\* The `continue` tests at the top of the loop body of build_operations.
\* identity-foundation-sync chains the comparison:
\*   src_frontend_val != src_row_val != ROW_VALUE_PROJECT or src_order_val != ...
is_skipped(j, scells) ==
    LET src_row_val == str_value(scells, SRC_ROW_COL)
        src_order_val == str_value(scells, SRC_ORDER_COL)
        src_tank_val == cell_value(scells, SRC_TANK_COL)
        src_frontend_val == str_value(scells, SRC_FRONTEND_COL)
    IN  \/ IF j = "foundation"
           THEN \/ (src_frontend_val # src_row_val /\ src_row_val # ROW_VALUE_PROJECT)
                \/ src_order_val # ORDER_VALUE_PROJECT
           ELSE src_row_val # ROW_VALUE_PROJECT \/ src_order_val # ORDER_VALUE_PROJECT
        \/ is_blank(src_tank_val)

\* The first candidate whose raw row-type cell equals the job's literal.
RECURSIVE first_candidate(_, _)
first_candidate(j, candidates) ==
    IF candidates = <<>> THEN <<>>
    ELSE IF cell_value(Head(candidates).cells, DEST_ROW_COL(j)) = Str(ROW_VALUE_DEST(j))
         THEN <<Head(candidates)>>
         ELSE first_candidate(j, Tail(candidates))

\* dest_row of the loop body, as a sequence: <<>> is Python's None.
lookup_dest_row(j, tank_key, idx) ==
    IF j = "foundation"
    THEN (IF tank_key \in DOMAIN idx THEN <<idx[tank_key]>> ELSE <<>>)
    ELSE first_candidate(j, IF tank_key \in DOMAIN idx THEN idx[tank_key] ELSE <<>>)

\* Mutant: the gate forgotten, every absent row is inserted.
insert_gate_open(j, src_gate_val) == TRUE

\* The insertion gate on the stripped source gate value.
insert_gate(j, src_gate_val) ==
    CASE j = "foundation" -> src_gate_val = "Subcontractor" \/ src_gate_val = "Phoenix"
      [] j = "ground"     -> src_gate_val = "Required"
      [] j = "insulation" -> src_gate_val = "Phoenix" \/ src_gate_val = "Subcontractor"

\* Mutant: an Insert without the forced literal cells.
insert_cells_unforced(j, scells) == mapped_payload(scells, COLUMN_MAP(j))

\* The cells of an Insert.
insert_cells(j, scells) ==
    LET src_gate_val == str_value(scells, SRC_GATE_COL(j))
    IN  CASE j = "foundation" ->
               mapped_payload(scells, COLUMN_MAP(j))
               \o <<Cell(DEST_ROW_COL(j), Str(ROW_VALUE_FRONTEND))>>
               \o <<Cell("1618831289831300", Str("Front-End - Site Work")),
                    Cell("598484499255172", Str("00002 - Front-End - Site Work")),
                    Cell("5102084126625668", Str("Front-End - Site Work"))>>
          [] j = "ground" ->
               mapped_payload(scells, COLUMN_MAP(j))
               \o <<Cell("1618831289831300", Str(ROW_VALUE_GROUND_IMPROVEMENTS)),
                    Cell("598484499255172", Str("0003 - Ground Improvements")),
                    Cell(DEST_ROW_COL(j), Str(ROW_VALUE_GROUND_IMPROVEMENTS)),
                    Cell(DEST_GROUND_IMPROVEMENTS_COL, Str("Required"))>>
          [] j = "insulation" ->
               mapped_payload(scells, COLUMN_MAP(j))
               \o <<Cell(DEST_PRIMERY_COL(j), Str(ROW_VALUE_INSULATION)),
                    Cell(DEST_ORDER_COL(j), Str(DEST_ORDER_VAL(j))),
                    Cell(DEST_ROW_COL(j), Str(ROW_VALUE_INSULATION)),
                    Cell(DEST_INSULATION_COL, Str(src_gate_val))>>

\* Mutant: the NTP date written without the rest of its linked group.
tracked_update_cells_unlinked(j, scells, dest_cells) ==
    LET src_gate_val == str_value(scells, SRC_GATE_COL(j))
        src_ntp_date_val == cell_value(scells, SRC_NTP_DATE_COL)
    IN  (IF Str(src_gate_val) # cell_value(dest_cells, DEST_TRACKED_COL(j))
         THEN <<Cell(DEST_TRACKED_COL(j), Str(src_gate_val))>> ELSE <<>>)
        \o
        (IF src_ntp_date_val # cell_value(dest_cells, DEST_NTP_DATE_COL(j))
         THEN <<Cell(DEST_NTP_DATE_COL(j), src_ntp_date_val)>> ELSE <<>>)

\* The cells of an Update of the list-indexed jobs: the tracked status when
\* the stripped source value != the raw destination value, and the linked
\* NTP group when the raw NTP dates differ.
tracked_update_cells(j, scells, dest_cells) ==
    LET src_gate_val == str_value(scells, SRC_GATE_COL(j))
        src_ntp_date_val == cell_value(scells, SRC_NTP_DATE_COL)
        src_contract_days_val == cell_value(scells, SRC_CONTRACT_DAYS_COL)
        src_ntp_completion_date_val == cell_value(scells, SRC_NTP_COMPLETION_DATE_COL)
        dest_gate_val == cell_value(dest_cells, DEST_TRACKED_COL(j))
    IN  (IF Str(src_gate_val) # dest_gate_val
         THEN <<Cell(DEST_TRACKED_COL(j), Str(src_gate_val))>> ELSE <<>>)
        \o
        (IF src_ntp_date_val # cell_value(dest_cells, DEST_NTP_DATE_COL(j))
         THEN <<Cell(DEST_NTP_DATE_COL(j), src_ntp_date_val),
                Cell(DEST_CONTRACT_DAYS_COL(j), src_contract_days_val),
                Cell(DEST_NTP_COMPLETION_DATE_COL(j), src_ntp_completion_date_val)>>
         ELSE <<>>)

\* The cells of an Update, <<>> when no Update is emitted.
update_cells(j, scells, dest_cells) ==
    IF j = "foundation"
    THEN (IF find_column_diffs(j, scells, dest_cells) # <<>>
          THEN mapped_payload(scells, COLUMN_MAP(j))
               \o <<Cell(DEST_ROW_COL(j), Str(ROW_VALUE_FRONTEND))>>
          ELSE <<>>)
    ELSE tracked_update_cells(j, scells, dest_cells)

\* One iteration of the loop of build_operations: what the source row adds
\* to inserts and to updates.
plan_row(j, srow, idx) ==
    LET scells == srow.cells
        nothing == [inserts |-> <<>>, updates |-> <<>>]
    IN  IF is_skipped(j, scells) THEN nothing
        ELSE
          LET tank_key == tank_key_of(cell_value(scells, SRC_TANK_COL))
              dest_row == lookup_dest_row(j, tank_key, idx)
          IN  IF dest_row = <<>>
              THEN (IF insert_gate(j, str_value(scells, SRC_GATE_COL(j)))
                    THEN [inserts |-> <<[toBottom |-> TRUE,
                                         cells |-> insert_cells(j, scells)]>>,
                          updates |-> <<>>]
                    ELSE nothing)
              ELSE
                LET cells == update_cells(j, scells, dest_row[1].cells)
                IN  IF cells # <<>>
                    THEN [inserts |-> <<>>,
                          updates |-> <<[id |-> dest_row[1].id, cells |-> cells]>>]
                    ELSE nothing

\* build_operations(source_rows, dest_index) -> (inserts, updates)
RECURSIVE build_operations(_, _, _)
build_operations(j, rows, idx) ==
    IF rows = <<>> THEN [inserts |-> <<>>, updates |-> <<>>]
    ELSE LET first == plan_row(j, Head(rows), idx)
             rest == build_operations(j, Tail(rows), idx)
         IN  [inserts |-> first.inserts \o rest.inserts,
              updates |-> first.updates \o rest.updates]

(***************************************************************************)
(* Inputs of the sync jobs: bounded sheets.                                *)
(***************************************************************************)
MaxSrc == 2      \* source rows in a sheet
MaxDest == 2     \* destination rows in a sheet
MaxRows == 3     \* rows of both sheets together

NTP_DATE == Str("2024-01-01")

\* A source row (without its id) of job j.
SrcRow(j, tank, row, order, gate, ntp) ==
    (SRC_TANK_COL :> tank) @@ (SRC_ROW_COL :> row) @@ (SRC_ORDER_COL :> order) @@
    (SRC_GATE_COL(j) :> gate) @@ (SRC_SITE_NAME_COL :> Str("Site A")) @@
    (SRC_NTP_DATE_COL :> ntp) @@
    (SRC_CONTRACT_DAYS_COL :> IF ntp = None THEN None ELSE Num(30)) @@
    (SRC_NTP_COMPLETION_DATE_COL :> IF ntp = None THEN None ELSE Str("2024-01-31"))

\* The literal the job's insertion gate accepts, and the same literal padded.
GateLiteral(j) == IF j = "ground" THEN "Required" ELSE "Phoenix"
GatePadded(j) == IF j = "ground" THEN " Required " ELSE " Phoenix "

SrcRowSet(j) ==
    LET P == Str(ROW_VALUE_PROJECT)
        O == Str(ORDER_VALUE_PROJECT)
        G == Str(GateLiteral(j))
    IN  { SrcRow(j, Str("10"), P, O, g, NTP_DATE) :
              g \in {G, None, Str(GatePadded(j)), Str("Other")} }
        \cup { SrcRow(j, Str("10"), P, O, G, None) }
        \cup { SrcRow(j, t, P, O, G, NTP_DATE) : t \in {None, Num(10), Str("11")} }
        \cup { SrcRow(j, Str("10"), G, O, G, NTP_DATE),
               SrcRow(j, Str("10"), P, Str("0001 - Other"), G, NTP_DATE) }

\* A destination row (without its id) of job j, its linked NTP cells given.
DestRowLinked(j, tank, row, tracked, ntp, days, completion) ==
    (DEST_TANK_COL(j) :> tank) @@ (DEST_ROW_COL(j) :> row) @@
    (DEST_TRACKED_COL(j) :> tracked) @@ (DEST_SITE_NAME_COL(j) :> Str("Site A")) @@
    (DEST_NTP_DATE_COL(j) :> ntp) @@
    (DEST_CONTRACT_DAYS_COL(j) :> days) @@
    (DEST_NTP_COMPLETION_DATE_COL(j) :> completion)

\* A destination row whose contract days and completion date go with its
\* NTP date as in the source rows.
DestRow(j, tank, row, tracked, ntp) ==
    DestRowLinked(j, tank, row, tracked, ntp,
                  IF ntp = None THEN None ELSE Num(30),
                  IF ntp = None THEN None ELSE Str("2024-01-31"))

RowTypePadded(j) ==
    CASE j = "foundation" -> "Front-End - Site Work "
      [] j = "ground"     -> "Ground Improvements "
      [] j = "insulation" -> "Insulation "

DestRowSet(j) ==
    LET R == Str(ROW_VALUE_DEST(j))
        G == Str(GateLiteral(j))
    IN  { DestRow(j, Str("10"), R, t, n) :
              t \in {G, None, Str("")}, n \in {NTP_DATE, None} }
        \cup { DestRowLinked(j, Str("10"), R, G, NTP_DATE, Num(45), Str("2024-01-31")),
               DestRowLinked(j, Str("10"), R, G, NTP_DATE, Num(30), Str("2024-02-15")) }
        \cup { DestRow(j, Str("11"), R, G, NTP_DATE),
               DestRow(j, Str("10"), Str("Engineering"), G, NTP_DATE),
               DestRow(j, Str("10"), Str(RowTypePadded(j)), G, NTP_DATE) }

\* Sheets of n rows over a set of cell maps; row ids follow the sheet order.
SheetsOf(S, n, base) ==
    { [i \in 1..n |-> [id |-> base + i, cells |-> f[i]]] : f \in [1..n -> S] }

(***************************************************************************)
(* The sheet service as the jobs see it: every request is recorded in      *)
(* `calls`; a request fails only while `faults` allows it.                 *)
(***************************************************************************)
MAX_BATCH == 500
RETRY_DELAY == 3
MaxFaults == 2      \* failed responses in one behaviour

SOURCE_SHEET_ID == "639499383033732"

\* One requests.get / requests.put / requests.post and its status code.
Call(method, sheet, body, status) ==
    [method |-> method, sheet |-> sheet, body |-> body, status |-> status]

\* One time.sleep(secs).
Sleep(secs) == [method |-> "SLEEP", secs |-> secs]

IsWrite(c) == c.method \in {"PUT", "POST"}

\* Status codes a GET can come back with; raise_for_status() treats every
\* code from 400 alike.
GetResponses == IF faults > 0 THEN {200, 500} ELSE {200}

\* Status codes a PUT or POST can come back with.
WriteResponses == IF faults > 0 THEN {200, 429, 500} ELSE {200}

after_response(status) == IF status = 200 THEN faults ELSE faults - 1

\* A slice that stops one operation short of the batch size.
chunk_at_short(seq, off) == SubSeq(seq, off + 1, Min(off + MAX_BATCH - 1, Len(seq)))

\* updates[i:i + MAX_BATCH], i counted from 0
chunk_at(seq, off) == SubSeq(seq, off + 1, Min(off + MAX_BATCH, Len(seq)))

\* The value a cell reads back with after `value` was written to it: an
\* empty string clears the cell.
stored(value) == IF value = Str("") THEN None ELSE value

\* The cells of a row after the cells of one row operation were written,
\* in the order of the operation.
RECURSIVE write_cells(_, _)
write_cells(cells, op_cells) ==
    IF op_cells = <<>> THEN cells
    ELSE LET c == Head(op_cells)
         IN  write_cells(
                 [col \in DOMAIN cells \cup {c.columnId} |->
                     IF col = c.columnId THEN stored(c.value) ELSE cells[col]],
                 Tail(op_cells))

\* The cells of a row after the row operations `ops` were written in order.
RECURSIVE write_ops(_, _)
write_ops(cells, ops) ==
    IF ops = <<>> THEN cells
    ELSE write_ops(write_cells(cells, Head(ops).cells), Tail(ops))

\* The rows of a sheet after a successful PUT /sheets/{id}/rows of `body`:
\* every row takes the operations that name its id.
put_rows(rows, body) ==
    [n \in 1..Len(rows) |->
        [rows[n] EXCEPT
            !.cells = write_ops(@, SelectSeq(body, LAMBDA op : op.id = rows[n].id))]]

(***************************************************************************)
(* project-missing-check and status-update                                 *)
(***************************************************************************)
\* project-missing-check holds two modules with a main(): __init__.py
\* ("missing") and __init__copy1.py ("missing_copy1").
MissingJobs == {"missing", "missing_copy1"}
KeyJobs == MissingJobs \cup {"status"}

SRC_COL_TANK == "3633417232797572"
SRC_COL_CITY == "818667465691012"
SRC_COL_STATE == "5322267093061508"
SRC_COL_STATUS == "1917042186473348"

\* int(float(s)) on the strings of the model that float() accepts; float()
\* raises ValueError on every other string.
IntOfFloat ==
    ("10" :> 10) @@ ("010" :> 10) @@ ("10.0" :> 10) @@ ("11" :> 11) @@
    ("12" :> 12)

normalize_tank(value) ==
    IF value = None \/ strip(py_str(value)) = "" THEN ""
    ELSE LET s == strip(py_str(value))
         IN  IF s \in DOMAIN IntOfFloat THEN ToString(IntOfFloat[s])
             ELSE lower(s)

\* extract_key(row, tank_col, city_col, state_col), on the cells of the row
extract_key(cells, tank_col, city_col, state_col) ==
    LET tank == normalize_tank(cell_value(cells, tank_col))
        city == lower(str_value(cells, city_col))
        state == lower(str_value(cells, state_col))
    IN  IF tank = "" \/ city = "" \/ state = "" THEN ""
        ELSE tank \o "|" \o city \o "|" \o state

\* cells.get(SRC_COL_STATUS, ""): the value of the status cell, "" when the
\* row has no such cell.
source_status(cells) ==
    IF SRC_COL_STATUS \in DOMAIN cells THEN cells[SRC_COL_STATUS] ELSE Str("")

\* The loop of main() over src_rows: project-missing-check adds the key to
\* the set src_keys, status-update assigns src_map[key] the source status.
RECURSIVE load_source(_, _, _)
load_source(j, rows, map) ==
    IF rows = <<>> THEN map
    ELSE LET cells == Head(rows).cells
             key == extract_key(cells, SRC_COL_TANK, SRC_COL_CITY, SRC_COL_STATE)
             val == IF j = "status" THEN source_status(cells) ELSE None
         IN  load_source(j, Tail(rows),
                 IF key = "" THEN map ELSE dict_set(map, key, val))

\* validate_dest_sheet(dest) of status-update and of __init__copy1.py;
\* column ids of the descriptors are ints.
validate_dest_sheet(j, dest) ==
    {"tank", "city", "state", IF j = "status" THEN "status" ELSE "missing"}
        \subseteq DOMAIN dest.cols

\* (v or "").strip() if v else "" -- defined when v is falsy or a str
status_text(v) == IF truthy(v) THEN strip(v.s) ELSE ""

\* .strip() raises AttributeError on a truthy value that is not a str
strip_raises(v) == truthy(v) /\ v.t # "str"

\* key = f"{tank}|{city.lower()}|{state.lower()}" of status-update's main()
dest_key(cells, cols) ==
    normalize_tank(cell_value(cells, cols.tank)) \o "|"
        \o lower(str_value(cells, cols.city)) \o "|"
        \o lower(str_value(cells, cols.state))

\* src_map.get(key)
src_status_of(map, key) == IF key \in DOMAIN map THEN map[key] ELSE None

\* status_row_updates without the comparison of the two statuses.
status_row_updates_unconditional(row, cols, map) ==
    LET cells == row.cells
        tank == normalize_tank(cell_value(cells, cols.tank))
        city == str_value(cells, cols.city)
        state == str_value(cells, cols.state)
        dest_status == status_text(cell_value(cells, cols.status))
        src_status == status_text(src_status_of(map, dest_key(cells, cols)))
    IN  IF src_status = "" /\ dest_status = "" THEN <<>>
        ELSE IF tank = "" /\ city = "" /\ state = "" THEN <<>>
        ELSE << [id |-> row.id,
                 cells |-> << Cell(cols.status, Str(src_status)) >>] >>

\* The body of status-update's `for row in dest_rows`: the updates the row
\* contributes.
status_row_updates(row, cols, map) ==
    LET cells == row.cells
        tank == normalize_tank(cell_value(cells, cols.tank))
        city == str_value(cells, cols.city)
        state == str_value(cells, cols.state)
        dest_status == status_text(cell_value(cells, cols.status))
        src_status == status_text(src_status_of(map, dest_key(cells, cols)))
    IN  IF src_status = "" /\ dest_status = "" THEN <<>>
        ELSE IF tank = "" /\ city = "" /\ state = "" THEN <<>>
        ELSE IF src_status # dest_status
             THEN << [id |-> row.id,
                      cells |-> << Cell(cols.status, Str(src_status)) >>] >>
             ELSE <<>>

\* The two tests of project-missing-check's `for row in dest_rows`:
\* `if not key: continue` and `if key not in src_keys`.
is_missing_project(cells, cols, keys) ==
    LET key == extract_key(cells, cols.tank, cols.city, cols.state)
    IN  key # "" /\ key \notin keys

\* The body of project-missing-check's `for row in dest_rows`.
missing_row_updates(row, cols, keys) ==
    IF is_missing_project(row.cells, cols, keys)
    THEN << [id |-> row.id,
             cells |-> << Cell(cols.missing, Bool(TRUE)) >>] >>
    ELSE <<>>

\* The body of `for row in dest_rows` of __init__copy1.py: every row gets
\* an update, True for a valid key that is not in src_keys, False else.
flag_row_updates(row, cols, keys) ==
    << [id |-> row.id,
        cells |-> << Cell(cols.missing,
                          Bool(is_missing_project(row.cells, cols, keys))) >>] >>

\* Whether the body of the loop over dest_rows raises on the row:
\* cols["missing"] on a descriptor without that entry (__init__.py),
\* .strip() on a status that is not a str (status-update);
\* __init__copy1.py plans validated descriptors only.
row_raises(j, cells, cols, map) ==
    CASE j = "missing" ->
           is_missing_project(cells, cols, DOMAIN map)
               /\ "missing" \notin DOMAIN cols
      [] j = "missing_copy1" -> FALSE
      [] j = "status" ->
           \/ strip_raises(cell_value(cells, cols.status))
           \/ strip_raises(src_status_of(map, dest_key(cells, cols)))

\* Whether the loop over dest_rows raises.
plan_raises(j, rows, cols, map) ==
    \E n \in 1..Len(rows) : row_raises(j, rows[n].cells, cols, map)

\* The rows the loop over dest_rows goes through before it ends: all of
\* them, or those before the first row it raises on.
rows_planned(j, rows, cols, map) ==
    LET bad == { n \in 1..Len(rows) : row_raises(j, rows[n].cells, cols, map) }
    IN  IF bad = {} THEN rows
        ELSE SubSeq(rows, 1, (CHOOSE n \in bad : \A m \in bad : n <= m) - 1)

\* The list `updates` main() builds for one destination sheet.
RECURSIVE plan_updates(_, _, _, _)
plan_updates(j, rows, cols, map) ==
    IF rows = <<>> THEN <<>>
    ELSE (CASE j = "missing" -> missing_row_updates(Head(rows), cols, DOMAIN map)
            [] j = "missing_copy1" -> flag_row_updates(Head(rows), cols, DOMAIN map)
            [] j = "status" -> status_row_updates(Head(rows), cols, map))
         \o plan_updates(j, Tail(rows), cols, map)

\* bulk_update() under DRY_RUN: total += len(chunk) for every chunk.
RECURSIVE dry_total(_, _)
dry_total(ups, off) ==
    IF off >= Len(ups) THEN 0
    ELSE Len(chunk_at(ups, off)) + dry_total(ups, off + MAX_BATCH)

(***************************************************************************)
(* Inputs of project-missing-check and status-update                       *)
(***************************************************************************)
MaxKeyRows == 3     \* rows of the source and the destination sheets together

SheetA == "1936716945379204"
SheetB == "4814574961250180"

\* A descriptor of DEST_SHEETS_JSON for job j; `complete` tells whether it
\* names the column the job writes.
DestDescriptor(j, sid, name, complete) ==
    [sheet_id |-> sid, sheet_name |-> name,
     cols |-> IF ~complete
              THEN [tank |-> "101", city |-> "102", state |-> "103"]
              ELSE IF j \in MissingJobs
                   THEN [tank |-> "101", city |-> "102", state |-> "103",
                         missing |-> "104"]
                   ELSE [tank |-> "101", city |-> "102", state |-> "103",
                         status |-> "104"]]

KeyConfigs(j) ==
    { << DestDescriptor(j, SheetA, "Erection", TRUE),
         DestDescriptor(j, SheetB, "Foundation", TRUE) >>,
      << DestDescriptor(j, SheetA, "Erection", FALSE),
         DestDescriptor(j, SheetB, "Foundation", TRUE) >>,
      << DestDescriptor(j, SheetA, "Erection", TRUE),
         DestDescriptor(j, SheetA, "Erection", TRUE) >> }

\* The cells of a source row.
KeySrcRow(tank, city, state, status) ==
    (SRC_COL_TANK :> tank) @@ (SRC_COL_CITY :> city) @@
    (SRC_COL_STATE :> state) @@ (SRC_COL_STATUS :> status)

\* The cells of a source row that has no cell of the status column.
KeySrcRowNoStatus(tank, city, state) ==
    (SRC_COL_TANK :> tank) @@ (SRC_COL_CITY :> city) @@ (SRC_COL_STATE :> state)

KeySrcSet(j) ==
    LET A == Str("Austin")
        T == Str("TX")
        S == IF j = "status" THEN Str("Active") ELSE None
    IN  { KeySrcRow(Str("10"), A, T, S),
          KeySrcRow(Str("010"), Str(" Austin "), Str("TX "),
                    IF j = "status" THEN Str(" Active ") ELSE None),
          KeySrcRow(None, A, T, S),
          KeySrcRow(Str("10"), None, T, S),
          KeySrcRow(Str("10"), A, Str(" "), S),
          KeySrcRow(Str("11"), A, T, IF j = "status" THEN Str("Closed") ELSE None) }
        \cup (IF j = "status"
              THEN { KeySrcRow(Str("10"), A, T, None),
                     KeySrcRow(Str("10"), A, T, Num(5)),
                     KeySrcRowNoStatus(Str("10"), A, T) }
              ELSE {})

\* The cells of a destination row; the fourth column is the one the job
\* writes ("missing" or "status").
KeyDestRow(tank, city, state, fourth) ==
    ("101" :> tank) @@ ("102" :> city) @@ ("103" :> state) @@ ("104" :> fourth)

KeyDestSet(j) ==
    LET A == Str("Austin")
        T == Str("TX")
        S == IF j = "status" THEN Str("Active") ELSE None
    IN  { KeyDestRow(Str("10"), A, T, S),
          KeyDestRow(Num(10), A, T, IF j = "status" THEN Str("Closed") ELSE None),
          KeyDestRow(Str("10"), None, T, S),
          KeyDestRow(None, None, None, S),
          KeyDestRow(Str("12"), A, T, S) }
        \cup (IF j = "status"
              THEN { KeyDestRow(Str("10"), A, T, None),
                     KeyDestRow(Str("11"), A, T, Num(5)) }
              ELSE {})

(***************************************************************************)
(* main() of project-missing-check and status-update                       *)
(***************************************************************************)
InitKeyOf(max_rows, max_faults) ==
    /\ job \in KeyJobs
    /\ pc = "start"
    /\ DRY_RUN \in BOOLEAN
    /\ DEST_SHEETS \in KeyConfigs(job)
    /\ \E ns \in 0..max_rows, na \in 0..max_rows, nb \in 0..max_rows :
          /\ ns + na + nb <= max_rows
          /\ source_sheet \in SheetsOf(KeySrcSet(job), ns, 0)
          /\ dest_store \in
                { (SheetA :> a) @@ (SheetB :> b) :
                      a \in SheetsOf(KeyDestSet(job), na, 100),
                      b \in SheetsOf(KeyDestSet(job), nb, 200) }
    /\ faults = max_faults
    /\ dest_sheet = <<>> /\ source_rows = <<>> /\ dest_index = EmptyDict
    /\ inserts = <<>> /\ updates = <<>> /\ src_map = EmptyDict
    /\ cursor = 0 /\ offset = 0 /\ attempt = 0 /\ total_updates = 0
    /\ calls = <<>> /\ plans = <<>>
    /\ payload = <<>> /\ results = <<>> /\ status_code = 0 /\ sql = ""
    /\ dry_report = <<>> /\ edits = 0
    /\ other = NoInvocation
    /\ title_cache = {}

InitKey == InitKeyOf(MaxKeyRows, MaxFaults)

\* Where main() continues after the destination sheet at position c.
next_sheet_pc(c) == IF c + 1 > Len(DEST_SHEETS) THEN "returned" ELSE "sheets"

\* main() up to the loop over DEST_SHEETS: the source sheet is fetched and
\* src_keys / src_map built.  get_all_rows() of project-missing-check
\* /__init__.py raises on a failed GET, the one of status-update and of
\* __init__copy1.py returns [].
KeyStart ==
    /\ job \in KeyJobs
    /\ pc = "start"
    /\ IF DEST_SHEETS = <<>>
       THEN pc' = "returned" /\ UNCHANGED <<src_map, cursor, calls, faults>>
       ELSE \E status \in GetResponses :
               /\ calls' = Append(calls, Call("GET", SOURCE_SHEET_ID, <<>>, status))
               /\ faults' = after_response(status)
               /\ IF status # 200 /\ job = "missing"
                  THEN pc' = "fatal" /\ UNCHANGED <<src_map, cursor>>
                  ELSE /\ src_map' = load_source(job,
                                        IF status = 200 THEN source_sheet ELSE <<>>,
                                        EmptyDict)
                       /\ cursor' = 1
                       /\ pc' = "sheets"
    /\ UNCHANGED <<envVars, source_sheet, dest_sheet, syncVars, updates,
                   DEST_SHEETS, dest_store, offset, attempt, total_updates,
                   plans, updaterVars>>

\* One iteration of `for dest in DEST_SHEETS` up to the call of
\* bulk_update(); under DRY_RUN bulk_update() is part of the step.
\* When the loop over dest_rows raises, `updates` is the list built up to
\* the row it raised on; a sheet that is skipped before `updates = []`
\* leaves the list of the sheet before it.
KeySheet ==
    /\ job \in KeyJobs
    /\ pc = "sheets"
    /\ LET dest == DEST_SHEETS[cursor]
           sid == dest.sheet_id
           cols == dest.cols
       IN  IF job # "missing" /\ ~validate_dest_sheet(job, dest)
           THEN /\ pc' = next_sheet_pc(cursor)
                /\ cursor' = cursor + 1
                /\ UNCHANGED <<calls, faults, updates, plans, total_updates,
                               offset, attempt>>
           ELSE \E status \in GetResponses :
                  LET rows == IF status = 200 THEN dest_store[sid] ELSE <<>>
                      raises == plan_raises(job, rows, cols, src_map)
                      ups == plan_updates(job,
                                 rows_planned(job, rows, cols, src_map),
                                 cols, src_map)
                      plan == [sheet |-> cursor, rows |-> rows, updates |-> ups]
                  IN  /\ calls' = Append(calls, Call("GET", sid, <<>>, status))
                      /\ faults' = after_response(status)
                      /\ IF job = "missing" /\ (status # 200 \/ raises)
                         THEN /\ pc' = "fatal"
                              /\ updates' = IF status = 200 THEN ups ELSE updates
                              /\ UNCHANGED <<cursor, plans, total_updates,
                                             offset, attempt>>
                         ELSE IF raises \/ (job # "missing" /\ rows = <<>>)
                         THEN /\ pc' = next_sheet_pc(cursor)
                              /\ cursor' = cursor + 1
                              /\ updates' = IF raises THEN ups ELSE updates
                              /\ UNCHANGED <<plans, total_updates,
                                             offset, attempt>>
                         ELSE IF ups = <<>> \/ DRY_RUN
                         THEN /\ pc' = next_sheet_pc(cursor)
                              /\ cursor' = cursor + 1
                              /\ updates' = ups
                              /\ plans' = Append(plans, plan)
                              /\ total_updates' = total_updates + dry_total(ups, 0)
                              /\ UNCHANGED <<offset, attempt>>
                         ELSE /\ pc' = "put"
                              /\ updates' = ups
                              /\ plans' = Append(plans, plan)
                              /\ offset' = 0
                              /\ attempt' = 0
                              /\ UNCHANGED <<cursor, total_updates>>
    /\ UNCHANGED <<envVars, source_sheet, dest_sheet, syncVars,
                   DEST_SHEETS, dest_store, src_map, updaterVars>>

\* A retry that goes on for as long as the service answers 429.
retry_while_limited(status, att) == status = 429

\* `for attempt in range(2)` with `continue` on 429: the chunk is sent again
\* after a rate-limited attempt if that was attempt 0.
retry(status, att) == status = 429 /\ att + 1 < 2

\* One requests.put of bulk_update(): the chunk at `offset`, attempt
\* `attempt`.  A 429 is slept on and retried once; any other error status
\* is raised by project-missing-check/__init__.py and logged by
\* status-update and __init__copy1.py.
KeyPut ==
    /\ job \in KeyJobs
    /\ pc = "put"
    /\ LET sid == DEST_SHEETS[cursor].sheet_id
           chunk == chunk_at(updates, offset)
           last == offset + MAX_BATCH >= Len(updates)
       IN  \E status \in WriteResponses :
              /\ calls' = calls \o << Call("PUT", sid, chunk, status) >>
                                \o (IF status = 429 THEN << Sleep(RETRY_DELAY) >>
                                                    ELSE <<>>)
              /\ faults' = after_response(status)
              /\ dest_store' = IF status = 200
                               THEN [dest_store EXCEPT ![sid] = put_rows(@, chunk)]
                               ELSE dest_store
              /\ IF retry(status, attempt)
                 THEN /\ attempt' = attempt + 1
                      /\ UNCHANGED <<pc, offset, cursor, total_updates>>
                 ELSE IF status = 500 /\ job = "missing"
                 THEN /\ pc' = "fatal"
                      /\ UNCHANGED <<offset, attempt, cursor, total_updates>>
                 ELSE IF ~last
                 THEN /\ offset' = offset + MAX_BATCH
                      /\ attempt' = 0
                      /\ UNCHANGED <<pc, cursor, total_updates>>
                 ELSE /\ total_updates' = total_updates + offset + Len(chunk)
                      /\ cursor' = cursor + 1
                      /\ pc' = next_sheet_pc(cursor)
                      /\ UNCHANGED <<offset, attempt>>
    /\ UNCHANGED <<envVars, source_sheet, dest_sheet, syncVars, updates,
                   DEST_SHEETS, src_map, plans, updaterVars>>

NextKey == KeyStart \/ KeySheet \/ KeyPut

SpecKey == InitKey /\ [][NextKey]_vars

(***************************************************************************)
(* project-smartsheet-updater                                              *)
(***************************************************************************)
DEPARTMENT_SHEET_MAP ==
    [Sales |-> "639499383033732", Engineering |-> "639499383033732",
     Shaft |-> "5148656698085252", Erection |-> "1936716945379204",
     Coatings |-> "5695766275248004", Subcontracts |-> "5695766275248004",
     Foundation |-> "4814574961250180"]
        @@ ("Punch List" :> "2176504579444612")

\* normalize(v) of the updater: str(v).strip().lower()
updater_normalize(v) == lower(strip(py_str(v)))

\* obj.get(name)
obj_get(obj, name) == IF name \in DOMAIN obj THEN obj[name] ELSE None

\* resolve_candidate_sheets(obj) raises ValueError
department_invalid(obj) ==
    LET dept == obj_get(obj, "department")
    IN  ~truthy(dept) \/ dept.t # "str" \/ dept.s \notin DOMAIN DEPARTMENT_SHEET_MAP

\* resolve_candidate_sheets(obj)[0]
resolve_candidate_sheet(obj) == DEPARTMENT_SHEET_MAP[obj.department.s]

\* cell(col) of row_matcher: a row holds the value of a cell in `cells` and
\* its displayValue, when it has one, in `display`.
matcher_cell(row, col, col_map) ==
    IF col \notin DOMAIN col_map \/ col_map[col] \notin DOMAIN row.cells THEN ""
    ELSE LET cid == col_map[col]
             shown == IF cid \in DOMAIN row.display THEN row.display[cid] ELSE None
         IN  updater_normalize(IF truthy(shown) THEN shown ELSE row.cells[cid])

row_matcher(row, obj, col_map) ==
    /\ matcher_cell(row, "Tank #", col_map) = updater_normalize(obj.jobNumber)
    /\ matcher_cell(row, "City", col_map) = updater_normalize(obj.city)
    /\ matcher_cell(row, "State", col_map) = updater_normalize(obj.state)

\* The order of MS_TO_SS.items()
MS_TO_SS ==
    << <<"PM", "Project Manager">>, <<"ENG", "Assigned To">>,
       <<"FDN", "Assigned To">>, <<"Foreman/Sub", "Foreman/Sub">> >>

RECURSIVE build_updates_from(_, _, _)
build_updates_from(pairs, ups, col_map) ==
    IF pairs = <<>> THEN <<>>
    ELSE LET src == Head(pairs)[1]
             tgt == Head(pairs)[2]
         IN  (IF src \in DOMAIN ups /\ tgt \in DOMAIN col_map
              THEN << Cell(col_map[tgt], ups[src]) >> ELSE <<>>)
             \o build_updates_from(Tail(pairs), ups, col_map)

\* build_smartsheet_updates(obj, col_map)
build_smartsheet_updates(obj, col_map) ==
    build_updates_from(MS_TO_SS,
        IF "updates" \in DOMAIN obj THEN obj.updates ELSE EmptyDict, col_map)

\* extract_return_values(row, col_map)
extract_return_values(row, col_map) ==
    LET wanted == {"Duration", "Start Date", "End Date"}
        found == { name \in wanted :
                     name \in DOMAIN col_map /\ col_map[name] \in DOMAIN row.cells }
    IN  [name \in found |-> row.cells[col_map[name]]]

\* first_match taking the last row row_matcher accepts.
first_match_last(rows, obj, col_map) ==
    LET hits == { n \in 1..Len(rows) : row_matcher(rows[n], obj, col_map) }
    IN  IF hits = {} THEN 0 ELSE CHOOSE n \in hits : \A m \in hits : m <= n

\* The position of the first row of the sheet row_matcher accepts, 0 if none:
\* the `for row in sheet["rows"]` loop breaks at the first match.
first_match(rows, obj, col_map) ==
    LET hits == { n \in 1..Len(rows) : row_matcher(rows[n], obj, col_map) }
    IN  IF hits = {} THEN 0 ELSE CHOOSE n \in hits : \A m \in hits : n <= m

\* {**obj, "smartsheet": {...}}
matched_result(obj, sheet_id, row, col_map) ==
    ("smartsheet" :> [sheetId |-> sheet_id, rowId |-> row.id,
                      values |-> extract_return_values(row, col_map)]) @@ obj

\* {**obj, "error": "No matching Smartsheet row found"}
unmatched_result(obj) == ("error" :> Str("No matching Smartsheet row found")) @@ obj

\* One row log_audit() inserted into dbo.ProjectSmartsheetAuditLog.
Audit(operation, sheet_id, row_id, success) ==
    [method |-> "AUDIT", operation |-> operation, sheet |-> sheet_id,
     row |-> row_id, success |-> success]

(***************************************************************************)
(* Inputs of project-smartsheet-updater                                    *)
(***************************************************************************)
MaxObjs == 2            \* job objects in a request
MaxUpdaterRows == 2     \* rows of the two sheets together
MaxUpdaterFaults == 1   \* failed calls in one request
MaxEdits == 1           \* writes of other clients during one request

SalesSheet == DEPARTMENT_SHEET_MAP["Sales"]
FoundationSheet == DEPARTMENT_SHEET_MAP["Foundation"]

\* get_column_map(sheet): the Foundation sheet of the model has no
\* "Foreman/Sub" and no "End Date" column.
get_column_map(sheet_id) ==
    IF sheet_id = FoundationSheet
    THEN ("Tank #" :> "1") @@ ("City" :> "2") @@ ("State" :> "3") @@
         ("Project Manager" :> "4") @@ ("Assigned To" :> "5") @@
         ("Duration" :> "7") @@ ("Start Date" :> "8")
    ELSE ("Tank #" :> "1") @@ ("City" :> "2") @@ ("State" :> "3") @@
         ("Project Manager" :> "4") @@ ("Assigned To" :> "5") @@
         ("Foreman/Sub" :> "6") @@ ("Duration" :> "7") @@
         ("Start Date" :> "8") @@ ("End Date" :> "9")

\* A row (without its id) of the sheet: one cell per column of the sheet.
UpdaterRow(sheet_id, tank, shown, city, state, duration) ==
    LET ids == { get_column_map(sheet_id)[t] : t \in DOMAIN get_column_map(sheet_id) }
        all == ("1" :> tank) @@ ("2" :> city) @@ ("3" :> state) @@
               ("4" :> None) @@ ("5" :> None) @@ ("6" :> None) @@
               ("7" :> duration) @@ ("8" :> Str("2024-03-01")) @@
               ("9" :> Str("2024-04-01"))
    IN  [cells |-> [c \in ids |-> all[c]],
         display |-> IF shown = None THEN EmptyDict ELSE ("1" :> shown)]

UpdaterRowSet(sheet_id) ==
    { UpdaterRow(sheet_id, Str("10"), Str("10"), Str("Austin"), Str("TX"), Num(30)),
      UpdaterRow(sheet_id, Num(10), Str("10"), Str("AUSTIN"), Str("TX"), Num(45)),
      UpdaterRow(sheet_id, Str("11"), None, Str("Austin"), Str("TX"), None) }

UpdaterSheetsOf(sheet_id, n, base) ==
    { [m \in 1..n |-> [id |-> base + m, cells |-> f[m].cells,
                       display |-> f[m].display]] :
          f \in [1..n -> UpdaterRowSet(sheet_id)] }

JobObject(jobNumber, department, city, state, ups) ==
    [jobNumber |-> jobNumber, department |-> department, city |-> city,
     state |-> state, updates |-> ups]

ObjSet ==
    { JobObject(Str("10"), Str("Sales"), Str("Austin"), Str("TX"),
                ("PM" :> Str("Ann"))),
      JobObject(Num(10), Str("Sales"), Str(" Austin "), Str("tx"),
                ("ENG" :> Str("Bob")) @@ ("FDN" :> Str("Cy"))),
      JobObject(Str("10"), Str("Unknown"), Str("Austin"), Str("TX"),
                ("PM" :> Str("Ann"))),
      JobObject(Str("11"), Str("Foundation"), Str("Austin"), Str("TX"),
                ("Foreman/Sub" :> Str("Dee"))) }

(***************************************************************************)
(* main(req) of project-smartsheet-updater                                 *)
(***************************************************************************)
InitUpdaterOf(max_objs, max_rows, max_faults) ==
    /\ job = "updater"
    /\ pc = "objects"
    /\ DRY_RUN \in BOOLEAN
    /\ \E no \in 0..max_objs : payload \in [1..no -> ObjSet]
    /\ \E na \in 0..max_rows, nb \in 0..max_rows :
          /\ na + nb <= max_rows
          /\ dest_store \in
                { (SalesSheet :> a) @@ (FoundationSheet :> b) :
                      a \in UpdaterSheetsOf(SalesSheet, na, 100),
                      b \in UpdaterSheetsOf(FoundationSheet, nb, 200) }
    /\ cursor = 1
    /\ results = <<>>
    /\ status_code = 0
    /\ sql = ""
    /\ faults = max_faults
    /\ source_sheet = <<>> /\ dest_sheet = <<>> /\ source_rows = <<>>
    /\ dest_index = EmptyDict /\ inserts = <<>> /\ updates = <<>>
    /\ DEST_SHEETS = <<>> /\ src_map = EmptyDict
    /\ offset = 0 /\ attempt = 0 /\ total_updates = 0
    /\ calls = <<>> /\ plans = <<>>
    /\ dry_report = <<>>
    /\ edits = MaxEdits
    /\ other = NoInvocation
    /\ title_cache = {}

InitUpdater == InitUpdaterOf(MaxObjs, MaxUpdaterRows, MaxUpdaterFaults)

\* The statements of log_audit() that go to the audit store, in order:
\* get_sql_conn() with conn.cursor(), cur.execute(), conn.commit(),
\* conn.close().
log_audit_body == << "connect", "execute", "commit", "close" >>

\* A `try` that ends after the INSERT: commit and close follow the handler.
log_audit_try_insert_only == {"connect", "execute"}

\* The statements of log_audit() inside its `try:`, whose handler is
\* `except Exception`: it logs the failure and log_audit() returns.
log_audit_try == {"connect", "execute", "commit", "close"}

\* Whether an exception raised by statement stmt leaves log_audit().
log_audit_raises(stmt) == stmt \notin log_audit_try

\* One statement of log_audit() and whether it succeeded.
Sql(stmt, ok) == [method |-> "SQL", stmt |-> stmt, ok |-> ok]

\* Whether a statement sent to the audit store can fail.
SqlOutcomes == IF faults > 0 THEN {TRUE, FALSE} ELSE {TRUE}

\* The sheet get_sheet() returned for the object being processed, and the
\* position in it of the row the `for row in sheet["rows"]` loop stops at.
fetched_sheet == plans[Len(plans)].rows
matched_row ==
    LET obj == payload[cursor]
    IN  fetched_sheet[first_match(fetched_sheet, obj,
                          get_column_map(resolve_candidate_sheet(obj)))]

\* `for obj in payload` up to the return of get_sheet() and the loop over
\* the rows of the sheet: resolve_candidate_sheets() raises ValueError for
\* a department that is not in the map, a failed GET raises; both reach the
\* handler of main(), which answers 500.  An object no row matches gets
\* its entry of the results at once.
UpdaterGet ==
    /\ job = "updater"
    /\ pc = "objects"
    /\ cursor <= Len(payload)
    /\ LET obj == payload[cursor]
       IN  IF department_invalid(obj)
           THEN /\ pc' = "responded"
                /\ status_code' = 500
                /\ UNCHANGED <<cursor, results, calls, faults, plans>>
           ELSE
             \E status \in GetResponses :
               LET sheet_id == resolve_candidate_sheet(obj)
                   col_map == get_column_map(sheet_id)
                   rows == dest_store[sheet_id]
                   n == first_match(rows, obj, col_map)
               IN  /\ calls' = Append(calls, Call("GET", sheet_id, <<>>, status))
                   /\ faults' = after_response(status)
                   /\ IF status # 200
                      THEN /\ pc' = "responded"
                           /\ status_code' = 500
                           /\ UNCHANGED <<cursor, results, plans>>
                      ELSE /\ plans' = Append(plans, [sheet |-> sheet_id, rows |-> rows])
                           /\ IF n = 0
                              THEN /\ results' = Append(results, unmatched_result(obj))
                                   /\ cursor' = cursor + 1
                                   /\ UNCHANGED <<pc, status_code>>
                              ELSE /\ pc' = IF DRY_RUN THEN "audit_update"
                                            ELSE "update_row"
                                   /\ UNCHANGED <<cursor, results, status_code>>
    /\ sql' = IF pc' = "audit_update" THEN log_audit_body[1] ELSE ""
    /\ UNCHANGED <<envVars, source_sheet, dest_sheet, syncVars, updates,
                   DEST_SHEETS, src_map, total_updates, dest_store, offset,
                   attempt, payload>>

\* update_row(sheet_id, row_id, cells): the PUT of the matched row, whose
\* raise_for_status() treats every code from 400 alike.  When it raises,
\* the handler of the inner `try` calls log_audit(success=False) and
\* raises again.
UpdaterPut ==
    /\ job = "updater"
    /\ pc = "update_row"
    /\ LET obj == payload[cursor]
           sheet_id == resolve_candidate_sheet(obj)
           cells == build_smartsheet_updates(obj, get_column_map(sheet_id))
           body == << [id |-> matched_row.id, cells |-> cells] >>
       IN  \E status \in GetResponses :
              /\ calls' = Append(calls, Call("PUT", sheet_id, body, status))
              /\ faults' = after_response(status)
              /\ dest_store' = IF status = 200
                               THEN [dest_store EXCEPT ![sheet_id] = put_rows(@, body)]
                               ELSE dest_store
              /\ pc' = IF status = 200 THEN "audit_update" ELSE "audit_failure"
    /\ sql' = log_audit_body[1]
    /\ UNCHANGED <<envVars, source_sheet, dest_sheet, syncVars, updates,
                   keyVars, cursor, offset, attempt, payload, results,
                   status_code>>

\* One statement of a log_audit() call of main(): the one after the update
\* (pc = "audit_update"), the one after extract_return_values()
\* ("audit_return"), the one of the handler of the inner `try`
\* ("audit_failure").  A statement that fails ends log_audit(): inside its
\* `try` the failure is logged and log_audit() returns, outside it the
\* exception goes to the handler around the call.  The row is in the audit
\* table once commit() has returned.
UpdaterAudit ==
    /\ job = "updater"
    /\ pc \in {"audit_update", "audit_return", "audit_failure"}
    /\ LET obj == payload[cursor]
           sheet_id == resolve_candidate_sheet(obj)
           at == CHOOSE n \in DOMAIN log_audit_body : log_audit_body[n] = sql
           row == Audit(IF pc = "audit_return" THEN "RETURN_VALUES" ELSE "UPDATE_ROW",
                        sheet_id, matched_row.id, pc # "audit_failure")
       IN  \E ok \in SqlOutcomes :
              /\ faults' = IF ok THEN faults ELSE faults - 1
              /\ calls' = calls \o << Sql(sql, ok) >>
                                \o (IF ok /\ sql = "commit" THEN << row >> ELSE <<>>)
              /\ IF ok /\ at < Len(log_audit_body)
                 THEN /\ sql' = log_audit_body[at + 1]
                      /\ UNCHANGED <<pc, cursor, results, status_code>>
                 ELSE IF ~ok /\ log_audit_raises(sql) /\ pc # "audit_failure"
                 THEN /\ pc' = "audit_failure"
                      /\ sql' = log_audit_body[1]
                      /\ UNCHANGED <<cursor, results, status_code>>
                 ELSE IF pc = "audit_update"
                 THEN /\ pc' = "audit_return"
                      /\ sql' = log_audit_body[1]
                      /\ UNCHANGED <<cursor, results, status_code>>
                 ELSE IF pc = "audit_return"
                 THEN /\ results' = Append(results,
                            matched_result(obj, sheet_id, matched_row,
                                           get_column_map(sheet_id)))
                      /\ cursor' = cursor + 1
                      /\ pc' = "objects"
                      /\ sql' = ""
                      /\ UNCHANGED status_code
                 ELSE /\ pc' = "responded"
                      /\ status_code' = 500
                      /\ sql' = ""
                      /\ UNCHANGED <<cursor, results>>
    /\ UNCHANGED <<envVars, source_sheet, dest_sheet, syncVars, updates,
                   keyVars, dest_store, offset, attempt, payload>>

\* The HttpResponse after the loop: status "ok" with the results list.
UpdaterRespond ==
    /\ job = "updater"
    /\ pc = "objects"
    /\ cursor > Len(payload)
    /\ pc' = "responded"
    /\ status_code' = 200
    /\ UNCHANGED <<envVars, source_sheet, dest_sheet, syncVars, updates,
                   keyVars, dest_store, cursor, offset, attempt, calls, faults,
                   payload, results, sql>>

NextUpdater == UpdaterGet \/ UpdaterPut \/ UpdaterAudit \/ UpdaterRespond

\* Another client of the sheet service -- a second request to this
\* function, a timer job that writes the same sheet, a user -- overwrites
\* a row of a sheet while the request is between the GET of an object's
\* sheet and the object's entry in the results.
SheetChanged ==
    /\ job = "updater"
    /\ pc \in {"update_row", "audit_update", "audit_return", "audit_failure"}
    /\ edits > 0
    /\ edits' = edits - 1
    /\ \E sheet_id \in DOMAIN dest_store :
          \E n \in DOMAIN dest_store[sheet_id], r \in UpdaterRowSet(sheet_id) :
             /\ dest_store[sheet_id][n].cells # r.cells
             /\ dest_store' = [dest_store EXCEPT ![sheet_id][n] =
                                  [id |-> @.id, cells |-> r.cells,
                                   display |-> r.display]]
    /\ UNCHANGED <<job, DRY_RUN, dry_report, other, title_cache, pc,
                   source_sheet, dest_sheet, syncVars, updates, keyVars,
                   cursor, offset, attempt, calls, faults, updaterVars>>

NextRequest == NextUpdater \/ SheetChanged

SpecUpdater == InitUpdater /\ [][NextRequest]_vars
(***************************************************************************)
(* main() of the three sync jobs                                           *)
(***************************************************************************)
DEST_SHEET_ID(j) == IF j = "insulation" THEN "436476211842948" ELSE "4814574961250180"

\* Status codes the sync jobs tell apart in a write: below 400 or not.
SyncWriteResponses == IF faults > 0 THEN {200, 500} ELSE {200}

\* Whether save_last_run() can upload the marker blob.
BlobOutcomes == IF faults > 0 THEN {TRUE, FALSE} ELSE {TRUE}

\* The rows of the sheet after a successful POST /sheets/{id}/rows of `body`:
\* one new row per operation, appended in order.
post_rows(rows, body) ==
    rows \o [n \in 1..Len(body) |->
                [id |-> 1000 + Len(rows) + n,
                 cells |-> write_cells(EmptyDict, body[n].cells)]]

\* main() going on to the writes whatever the dry-run flag says.
after_plan_pc_live(dry, ins, ups) ==
    IF ins # <<>> THEN "insert"
    ELSE IF ups # <<>> THEN "update"
    ELSE "save"

\* Where main() continues after build_operations().
after_plan_pc(dry, ins, ups) ==
    IF dry THEN "save"
    ELSE IF ins # <<>> THEN "insert"
    ELSE IF ups # <<>> THEN "update"
    ELSE "save"

\* Where main() continues after the last batch of the list written at p.
after_list_pc(p, ups) == IF p = "insert" /\ ups # <<>> THEN "update" ELSE "save"

\* The sheets whose column titles build_operations asks for, in order.
title_sheets(j) == << SOURCE_SHEET_ID, DEST_SHEET_ID(j) >>

\* The titles get_column_titles still has to fetch: lru_cache keeps the
\* result of every call that returned, for the life of the process.
uncached_titles(j, cache) ==
    SelectSeq(title_sheets(j), LAMBDA sheet : sheet \notin cache)

\* main() waiting for the titles of the source / the destination sheet.
TitlePcs == {"src_titles", "dest_titles"}

\* Where main() stands when it calls build_operations: in the first
\* get_column_titles that does not find its sheet in the cache, or in the
\* planning loop.
titles_pc(j, cache) ==
    IF SOURCE_SHEET_ID \notin cache THEN "src_titles"
    ELSE IF DEST_SHEET_ID(j) \notin cache THEN "dest_titles"
    ELSE "plan"

\* The states get_column_titles' cache can be in when main() is entered:
\* empty in a new process; a call that raised is not cached.
TitleCaches(j) ==
    { {}, {SOURCE_SHEET_ID}, {SOURCE_SHEET_ID, DEST_SHEET_ID(j)} }

InitSyncOf(max_src, max_dest, max_rows, max_faults) ==
    /\ job \in SyncJobs
    /\ pc = "start"
    /\ DRY_RUN \in BOOLEAN
    /\ \E ns \in 0..max_src, nd \in 0..max_dest :
          /\ ns + nd <= max_rows
          /\ source_sheet \in SheetsOf(SrcRowSet(job), ns, 0)
          /\ dest_sheet \in SheetsOf(DestRowSet(job), nd, 100)
    /\ faults = max_faults
    /\ source_rows = <<>> /\ dest_index = EmptyDict
    /\ inserts = <<>> /\ updates = <<>>
    /\ DEST_SHEETS = <<>> /\ dest_store = EmptyDict /\ src_map = EmptyDict
    /\ cursor = 0 /\ offset = 0 /\ attempt = 0 /\ total_updates = 0
    /\ calls = <<>> /\ plans = <<>>
    /\ payload = <<>> /\ results = <<>> /\ status_code = 0 /\ sql = ""
    /\ dry_report = <<>> /\ edits = 0
    /\ other = NoInvocation
    /\ title_cache \in TitleCaches(job)

InitSync == InitSyncOf(MaxSrc, MaxDest, MaxRows, MaxFaults)

\* source_rows = list_all_source_project_rows(); `if not source_rows`
SyncStart ==
    /\ job \in SyncJobs
    /\ pc = "start"
    /\ \E status \in GetResponses :
          /\ calls' = Append(calls, Call("GET", SOURCE_SHEET_ID, <<>>, status))
          /\ faults' = after_response(status)
          /\ IF status # 200
             THEN pc' = "raised" /\ UNCHANGED <<source_rows, cursor>>
             ELSE LET rows == list_all_source_project_rows(job, source_sheet)
                  IN  /\ source_rows' = rows
                      /\ pc' = IF rows = <<>> THEN "save" ELSE "index"
                      /\ cursor' = IF rows = <<>> THEN 0 ELSE 1
    /\ UNCHANGED <<envVars, source_sheet, dest_sheet, dest_index, inserts,
                   updates, keyVars, dest_store, offset, attempt,
                   updaterVars>>

\* One iteration of the `while True` of index_dest_by_tank_and_*(): the GET
\* of page `cursor` and the loop over its rows; the loop ends on a page
\* that is not full.  A failed GET raises out of the indexer and of main().
SyncIndex ==
    /\ job \in SyncJobs
    /\ pc = "index"
    /\ \E status \in GetResponses :
          /\ calls' = Append(calls, Call("GET", DEST_SHEET_ID(job), <<>>, status))
          /\ faults' = after_response(status)
          /\ IF status # 200
             THEN pc' = "raised" /\ dest_index' = EmptyDict /\ cursor' = 0
             ELSE LET batch == page_of(dest_sheet, cursor)
                  IN  /\ dest_index' = index_rows(job, batch, dest_index)
                      /\ IF Len(batch) < page_size
                         THEN pc' = titles_pc(job, title_cache) /\ cursor' = 0
                         ELSE pc' = "index" /\ cursor' = cursor + 1
    /\ UNCHANGED <<envVars, source_sheet, dest_sheet, source_rows, inserts,
                   updates, keyVars, dest_store, offset, attempt,
                   updaterVars>>

\* get_column_titles(sheet) that did not find the sheet in its cache: the
\* GET of the titles; a result is cached, an exception is not and leaves
\* main().  `next` is where the caller goes on with the titles.
fetch_titles(sheet, next) ==
    /\ \E status \in GetResponses :
          /\ calls' = Append(calls, Call("GET", sheet, <<>>, status))
          /\ faults' = after_response(status)
          /\ IF status # 200
             THEN pc' = "raised" /\ UNCHANGED title_cache
             ELSE pc' = next /\ title_cache' = title_cache \cup {sheet}
    /\ UNCHANGED <<job, DRY_RUN, dry_report, edits, other, source_sheet, dest_sheet,
                   source_rows, dest_index, inserts, updates, keyVars,
                   dest_store, cursor, offset, attempt, updaterVars>>

\* src_titles = get_column_titles(SOURCE_SHEET_ID) / dest_titles =
\* get_column_titles(DEST_SHEET_ID) at the top of the build_operations that
\* main() calls.  The cache was looked up before the request was sent: the
\* GET is made also when another invocation has cached the titles since.
SyncTitles ==
    /\ job \in SyncJobs
    /\ pc \in TitlePcs
    /\ IF pc = "src_titles"
       THEN fetch_titles(SOURCE_SHEET_ID,
                IF DEST_SHEET_ID(job) \in title_cache THEN "plan" ELSE "dest_titles")
       ELSE fetch_titles(DEST_SHEET_ID(job), "plan")

\* inserts, updates = build_operations(source_rows, dest_index), once the
\* column titles of both sheets are at hand.
SyncPlan ==
    /\ job \in SyncJobs
    /\ pc = "plan"
    /\ LET ops == build_operations(job, source_rows, dest_index)
       IN  /\ inserts' = ops.inserts
           /\ updates' = ops.updates
           /\ pc' = after_plan_pc(DRY_RUN, ops.inserts, ops.updates)
    /\ UNCHANGED <<envVars, source_sheet, dest_sheet, source_rows,
                   dest_index, keyVars, dest_store, cursor, offset, attempt,
                   calls, faults, updaterVars>>

\* One ss_post / ss_put of bulk_insert / bulk_update: the batch at `offset`.
\* On a status from 400 identity-foundation-sync raises; the other two
\* jobs go through the batch row by row.
SyncWrite ==
    /\ job \in SyncJobs
    /\ pc \in {"insert", "update"}
    /\ LET ops == IF pc = "insert" THEN inserts ELSE updates
           batch == chunk_at(ops, offset)
           method == IF pc = "insert" THEN "POST" ELSE "PUT"
       IN  \E status \in SyncWriteResponses :
              /\ calls' = Append(calls, Call(method, DEST_SHEET_ID(job), batch, status))
              /\ faults' = after_response(status)
              /\ dest_sheet' = IF status # 200 THEN dest_sheet
                               ELSE IF pc = "insert" THEN post_rows(dest_sheet, batch)
                               ELSE put_rows(dest_sheet, batch)
              /\ IF status = 200
                 THEN IF offset + MAX_BATCH < Len(ops)
                      THEN offset' = offset + MAX_BATCH /\ UNCHANGED <<pc, attempt>>
                      ELSE /\ offset' = 0
                           /\ pc' = after_list_pc(pc, updates)
                           /\ UNCHANGED attempt
                 ELSE IF job = "foundation"
                 THEN pc' = "raised" /\ UNCHANGED <<offset, attempt>>
                 ELSE /\ pc' = IF pc = "insert" THEN "insert_rows" ELSE "update_rows"
                      /\ attempt' = 0
                      /\ UNCHANGED offset
    /\ UNCHANGED <<envVars, source_sheet, syncVars, updates, keyVars,
                   dest_store, cursor, updaterVars>>

\* One ss_post(url, [row]) / ss_put(url, [row]) of the row-by-row retry;
\* `attempt` is the position in the batch.  A failure is logged.
SyncWriteRow ==
    /\ job \in SyncJobs
    /\ pc \in {"insert_rows", "update_rows"}
    /\ LET list == IF pc = "insert_rows" THEN "insert" ELSE "update"
           ops == IF list = "insert" THEN inserts ELSE updates
           batch == chunk_at(ops, offset)
           row == batch[attempt + 1]
           method == IF list = "insert" THEN "POST" ELSE "PUT"
       IN  \E status \in SyncWriteResponses :
              /\ calls' = Append(calls, Call(method, DEST_SHEET_ID(job), <<row>>, status))
              /\ faults' = after_response(status)
              /\ dest_sheet' = IF status # 200 THEN dest_sheet
                               ELSE IF list = "insert" THEN post_rows(dest_sheet, <<row>>)
                               ELSE put_rows(dest_sheet, <<row>>)
              /\ IF attempt + 1 < Len(batch)
                 THEN attempt' = attempt + 1 /\ UNCHANGED <<pc, offset>>
                 ELSE /\ attempt' = 0
                      /\ IF offset + MAX_BATCH < Len(ops)
                         THEN offset' = offset + MAX_BATCH /\ pc' = list
                         ELSE offset' = 0 /\ pc' = after_list_pc(list, updates)
    /\ UNCHANGED <<envVars, source_sheet, syncVars, updates, keyVars,
                   dest_store, cursor, updaterVars>>

\* save_last_run(start_ts) and the return of main(); an exception of the
\* blob upload is re-raised like any other.
SyncSave ==
    /\ job \in SyncJobs
    /\ pc = "save"
    /\ \E ok \in BlobOutcomes :
          /\ calls' = Append(calls, [method |-> "BLOB", status |-> IF ok THEN 201 ELSE 500])
          /\ faults' = IF ok THEN faults ELSE faults - 1
          /\ pc' = IF ok THEN "returned" ELSE "raised"
    /\ UNCHANGED <<envVars, source_sheet, dest_sheet, syncVars, updates,
                   keyVars, dest_store, cursor, offset, attempt, updaterVars>>

NextSync ==
    SyncStart \/ SyncIndex \/ SyncTitles \/ SyncPlan \/ SyncWrite \/ SyncWriteRow \/ SyncSave

SpecSync == InitSync /\ [][NextSync]_vars


(***************************************************************************)
(* Two overlapping invocations of one sync job: the timer fires again      *)
(* while an invocation is running.  main() takes no lock and keeps no      *)
(* lease, so the two run their steps in any interleaving; `other` holds    *)
(* the locals of the invocation that is not taking the current step.  The  *)
(* two run in one process: the lru_cache of get_column_titles is a module  *)
(* attribute, so the titles one invocation fetched are cached for both.    *)
(***************************************************************************)
MaxOverlapRows == 2     \* rows of the source and the destination sheet together

\* The rows the overlapping runs start from: eligible and ineligible source
\* rows, destination rows of the job's row-type with and without differences.
OverlapSrcRows(j) ==
    LET P == Str(ROW_VALUE_PROJECT)
        O == Str(ORDER_VALUE_PROJECT)
        G == Str(GateLiteral(j))
    IN  { SrcRow(j, Str("10"), P, O, G, NTP_DATE),
          SrcRow(j, Str("11"), P, O, G, NTP_DATE),
          SrcRow(j, Str("10"), P, O, None, NTP_DATE),
          SrcRow(j, Str("10"), P, O, G, None) }
OverlapDestRows(j) ==
    LET R == Str(ROW_VALUE_DEST(j))
        G == Str(GateLiteral(j))
    IN  { DestRow(j, Str("10"), R, G, NTP_DATE),
          DestRow(j, Str("10"), R, None, None),
          DestRow(j, Str("11"), R, G, NTP_DATE) }

InitOverlap ==
    /\ job \in SyncJobs
    /\ pc = "start"
    /\ DRY_RUN = FALSE
    /\ \E ns \in 1..MaxOverlapRows, nd \in 0..MaxOverlapRows :
          /\ ns + nd <= MaxOverlapRows
          /\ source_sheet \in SheetsOf(OverlapSrcRows(job), ns, 0)
          /\ dest_sheet \in SheetsOf(OverlapDestRows(job), nd, 100)
    /\ faults = 0
    /\ source_rows = <<>> /\ dest_index = EmptyDict
    /\ inserts = <<>> /\ updates = <<>>
    /\ DEST_SHEETS = <<>> /\ dest_store = EmptyDict /\ src_map = EmptyDict
    /\ cursor = 0 /\ offset = 0 /\ attempt = 0 /\ total_updates = 0
    /\ calls = <<>> /\ plans = <<>>
    /\ payload = <<>> /\ results = <<>> /\ status_code = 0 /\ sql = ""
    /\ dry_report = <<>> /\ edits = 0
    /\ title_cache \in TitleCaches(job)
    /\ other = Invocation(2, "start", <<>>, EmptyDict, <<>>, <<>>, 0, 0, 0)

\* The locals of the two invocations change places: the one that was
\* waiting goes on from where it stood.
hand_over ==
    /\ other' = Invocation(3 - other.id, pc, source_rows, dest_index, inserts,
                           updates, offset, attempt, cursor)
    /\ pc' = other.pc
    /\ source_rows' = other.source_rows
    /\ dest_index' = other.dest_index
    /\ inserts' = other.inserts
    /\ updates' = other.updates
    /\ offset' = other.offset
    /\ attempt' = other.attempt
    /\ cursor' = other.page
    /\ UNCHANGED <<job, DRY_RUN, dry_report, edits, title_cache, source_sheet,
                   dest_sheet, keyVars, dest_store, calls, faults,
                   updaterVars>>

\* A main() that holds a lease on the job from its first statement to its
\* last: a second invocation takes no step before the first has ended.
SwitchAfterRelease ==
    /\ job \in SyncJobs
    /\ other # NoInvocation
    /\ other.pc \notin {"returned", "raised"}
    /\ pc \in {"returned", "raised"}
    /\ hand_over

\* The other invocation takes the next step: main() starts with the fetch
\* of the source sheet and nothing in it makes an invocation wait for the
\* one that started before it, wherever that one stands.
Switch ==
    /\ job \in SyncJobs
    /\ other # NoInvocation
    /\ other.pc \notin {"returned", "raised"}
    /\ hand_over

NextOverlap ==
    SyncStart \/ SyncIndex \/ SyncTitles \/ SyncPlan \/ SyncWrite \/ SyncSave \/ Switch

SpecOverlap == InitOverlap /\ [][NextOverlap]_vars
(***************************************************************************)
(* Two consecutive timer runs of a sync job over the same sheets.          *)
(***************************************************************************)
MaxConvergeRows == 2    \* rows of the source and the destination sheet together

InitConverge ==
    /\ job \in SyncJobs
    /\ pc = "start"
    /\ DRY_RUN = FALSE
    /\ \E ns \in 1..MaxConvergeRows, nd \in 0..MaxConvergeRows :
          /\ ns + nd <= MaxConvergeRows
          /\ source_sheet \in SheetsOf(SrcRowSet(job), ns, 0)
          /\ dest_sheet \in SheetsOf(DestRowSet(job), nd, 100)
    /\ faults = 0
    /\ source_rows = <<>> /\ dest_index = EmptyDict
    /\ inserts = <<>> /\ updates = <<>>
    /\ DEST_SHEETS = <<>> /\ dest_store = EmptyDict /\ src_map = EmptyDict
    /\ cursor = 0 /\ offset = 0 /\ attempt = 0 /\ total_updates = 0
    /\ calls = <<>> /\ plans = <<>>
    /\ payload = <<>> /\ results = <<>> /\ status_code = 0 /\ sql = ""
    /\ dry_report = <<>> /\ edits = 0
    /\ other = NoInvocation
    /\ title_cache = {}

\* The timer fires again after main() has returned: a new invocation with
\* fresh locals over the sheets as the finished one left them, in the same
\* process or in a new one.  `other` keeps the locals of the finished
\* invocation.
Rerun ==
    /\ job \in SyncJobs
    /\ pc = "returned"
    /\ other = NoInvocation
    /\ other' = Invocation(0, "returned", source_rows, dest_index, inserts,
                           updates, offset, attempt, cursor)
    /\ pc' = "start"
    /\ source_rows' = <<>> /\ dest_index' = EmptyDict
    /\ inserts' = <<>> /\ updates' = <<>>
    /\ offset' = 0 /\ attempt' = 0
    /\ \E restarted \in BOOLEAN :
          title_cache' = IF restarted THEN {} ELSE title_cache
    /\ UNCHANGED <<job, DRY_RUN, dry_report, edits, source_sheet, dest_sheet,
                   keyVars,
                   dest_store, cursor, calls, faults, updaterVars>>

NextConverge ==
    SyncStart \/ SyncIndex \/ SyncTitles \/ SyncPlan \/ SyncWrite \/ SyncSave \/ Rerun

SpecConverge == InitConverge /\ [][NextConverge]_vars

(***************************************************************************)
(* Chunking harness: bulk_insert / bulk_update on lists of pending         *)
(* operations of bounded length, the sheet service answering every call    *)
(* with 200.                                                               *)
(***************************************************************************)
MaxOps == 1501      \* pending operations in a list

\* The lengths tried: around the multiples of the batch size, and 200 more.
OpCounts == { n \in 0..MaxOps : n % MAX_BATCH \in {0, 1, 200, MAX_BATCH - 1} }

\* n pending operations of the list written at p, told apart by their cell.
PendingOps(p, n) ==
    [m \in 1..n |->
        IF p = "insert"
        THEN [toBottom |-> TRUE, cells |-> << Cell("1", Num(m)) >>]
        ELSE [id |-> m, cells |-> << Cell("1", Num(m)) >>]]

InitChunk ==
    /\ job \in SyncJobs \cup KeyJobs
    /\ DRY_RUN = FALSE
    /\ faults = 0
    /\ \E n \in OpCounts, p \in {"insert", "update"} :
          IF job \in SyncJobs
          THEN /\ inserts = IF p = "insert" THEN PendingOps(p, n) ELSE <<>>
               /\ updates = IF p = "update" THEN PendingOps(p, n) ELSE <<>>
               /\ pc = after_plan_pc(DRY_RUN, inserts, updates)
               /\ DEST_SHEETS = <<>>
               /\ dest_store = EmptyDict
               /\ cursor = 0
          ELSE /\ n > 0 /\ p = "update"
               /\ inserts = <<>>
               /\ updates = PendingOps(p, n)
               /\ pc = "put"
               /\ DEST_SHEETS = << DestDescriptor(job, SheetA, "Erection", TRUE) >>
               /\ dest_store = (SheetA :> <<>>)
               /\ cursor = 1
    /\ source_sheet = <<>> /\ dest_sheet = <<>> /\ source_rows = <<>>
    /\ dest_index = EmptyDict /\ src_map = EmptyDict
    /\ offset = 0 /\ attempt = 0 /\ total_updates = 0
    /\ calls = <<>> /\ plans = <<>>
    /\ payload = <<>> /\ results = <<>> /\ status_code = 0 /\ sql = ""
    /\ dry_report = <<>> /\ edits = 0
    /\ other = NoInvocation
    /\ title_cache = {}

NextChunk == SyncWrite \/ KeyPut

SpecChunk == InitChunk /\ [][NextChunk]_vars

(***************************************************************************)
(* Paging harness: the two fetches of a sync job on sheets of more than    *)
(* one page.                                                               *)
(***************************************************************************)
MaxSheetRows == 1001    \* rows of a sheet
MaxPageFaults == 1      \* failed GETs in one run

\* The sheet lengths tried: around the multiples of the page size.
SheetSizes == { n \in 1..MaxSheetRows : n % page_size \in {0, 1, page_size - 1} }

\* A source sheet of n candidate rows of job j, told apart by their ids.
LongSourceSheet(j, n) ==
    [m \in 1..n |->
        [id |-> m,
         cells |-> SrcRow(j, Str(IF m % 2 = 0 THEN "10" ELSE "11"),
                          Str(ROW_VALUE_PROJECT), Str(ORDER_VALUE_PROJECT),
                          Str(GateLiteral(j)), NTP_DATE)]]

\* A destination sheet of n rows the job owns, over two tanks.
LongDestSheet(j, n) ==
    [m \in 1..n |->
        [id |-> 100000 + m,
         cells |-> DestRow(j, Str(IF m % 2 = 0 THEN "10" ELSE "11"),
                           Str(ROW_VALUE_DEST(j)), Str(GateLiteral(j)), NTP_DATE)]]

InitPage ==
    /\ job \in SyncJobs
    /\ pc = "start"
    /\ DRY_RUN = FALSE
    /\ faults \in 0..MaxPageFaults
    /\ \E ns \in SheetSizes, nd \in SheetSizes :
          /\ source_sheet = LongSourceSheet(job, ns)
          /\ dest_sheet = LongDestSheet(job, nd)
    /\ source_rows = <<>> /\ dest_index = EmptyDict
    /\ inserts = <<>> /\ updates = <<>>
    /\ DEST_SHEETS = <<>> /\ dest_store = EmptyDict /\ src_map = EmptyDict
    /\ cursor = 0 /\ offset = 0 /\ attempt = 0 /\ total_updates = 0
    /\ calls = <<>> /\ plans = <<>>
    /\ payload = <<>> /\ results = <<>> /\ status_code = 0 /\ sql = ""
    /\ dry_report = <<>> /\ edits = 0
    /\ other = NoInvocation
    /\ title_cache = {}

NextPage == SyncStart \/ SyncIndex

SpecPage == InitPage /\ [][NextPage]_vars

(***************************************************************************)
(* Retry harness: bulk_update of project-missing-check and status-update   *)
(* on update lists of one to three chunks, the sheet service failing       *)
(* within a budget.                                                        *)
(***************************************************************************)
MaxRetryOps == 1001     \* pending updates in the list
MaxRetryFaults == 2     \* failed responses in one behaviour

\* The lengths tried: one, two and three chunks.
RetryCounts == { n \in 1..MaxRetryOps : n % MAX_BATCH = 1 }

InitRetry ==
    /\ job \in KeyJobs
    /\ DRY_RUN = FALSE
    /\ faults \in 0..MaxRetryFaults
    /\ \E n \in RetryCounts : updates = PendingOps("update", n)
    /\ pc = "put"
    /\ DEST_SHEETS = << DestDescriptor(job, SheetA, "Erection", TRUE) >>
    /\ dest_store = (SheetA :> <<>>)
    /\ cursor = 1
    /\ inserts = <<>>
    /\ source_sheet = <<>> /\ dest_sheet = <<>> /\ source_rows = <<>>
    /\ dest_index = EmptyDict /\ src_map = EmptyDict
    /\ offset = 0 /\ attempt = 0 /\ total_updates = 0
    /\ calls = <<>> /\ plans = <<>>
    /\ payload = <<>> /\ results = <<>> /\ status_code = 0 /\ sql = ""
    /\ dry_report = <<>> /\ edits = 0
    /\ other = NoInvocation
    /\ title_cache = {}

NextRetry == KeyPut

SpecRetry == InitRetry /\ [][NextRetry]_vars

(***************************************************************************)
(* All entry points, and a dry run followed by a live run on the same      *)
(* sheets.                                                                 *)
(***************************************************************************)
MaxRunRows == 2     \* rows of all sheets of a run together
MaxRunObjs == 1     \* job objects in a request
MaxRunFaults == 1   \* failed responses in the two runs together

\* What a finished dry run reported: the "Plan => inserts | updates" line of
\* a sync job, the total of the summary line of project-missing-check and
\* status-update, the entries of the updater's results with a matched row.
Reported ==
    IF job \in SyncJobs THEN << Len(inserts), Len(updates) >>
    ELSE IF job \in KeyJobs THEN << total_updates >>
    ELSE << Cardinality({ n \in 1..Len(results) : "smartsheet" \in DOMAIN results[n] }) >>

\* The invocation ended normally.
Completed ==
    IF job = "updater" THEN pc = "responded" /\ status_code = 200
    ELSE pc = "returned"

InitAll ==
    \/ InitSyncOf(MaxRunRows, MaxRunRows, MaxRunRows, MaxRunFaults)
    \/ InitKeyOf(MaxRunRows, MaxRunFaults)
    \/ InitUpdaterOf(MaxRunObjs, MaxRunRows, MaxRunFaults)

\* The dry-run flag of the job is switched off after a dry run that ended
\* normally and without a failed call, and the job is triggered again in
\* the new process.
Redeploy ==
    /\ DRY_RUN
    /\ Completed
    /\ dry_report = <<>>
    /\ \A n \in DOMAIN calls : "status" \in DOMAIN calls[n] => calls[n].status < 400
    /\ dry_report' = Reported
    /\ DRY_RUN' = FALSE
    /\ pc' = IF job = "updater" THEN "objects" ELSE "start"
    /\ cursor' = IF job = "updater" THEN 1 ELSE 0
    /\ source_rows' = <<>> /\ dest_index' = EmptyDict
    /\ inserts' = <<>> /\ updates' = <<>> /\ src_map' = EmptyDict
    /\ offset' = 0 /\ attempt' = 0 /\ total_updates' = 0
    /\ calls' = <<>> /\ plans' = <<>>
    /\ results' = <<>> /\ status_code' = 0
    /\ title_cache' = {}
    /\ UNCHANGED <<job, source_sheet, dest_sheet, DEST_SHEETS, dest_store,
                   faults, payload, sql, other, edits>>

Next == NextSync \/ NextKey \/ NextUpdater \/ Redeploy

Spec == InitAll /\ [][Next]_vars

(***************************************************************************)
(* Planning harness: main() up to the return of build_operations (pc =     *)
(* "start"), and build_operations applied to bounded inputs (pc = "input").*)
(***************************************************************************)
InitPlan ==
    /\ job \in SyncJobs
    /\ pc \in {"start", "input"}
    /\ DRY_RUN = FALSE
    /\ \E ns \in 0..MaxSrc, nd \in 0..MaxDest :
          /\ ns + nd <= MaxRows
          /\ source_sheet \in SheetsOf(SrcRowSet(job), ns, 0)
          /\ dest_sheet \in SheetsOf(DestRowSet(job), nd, 100)
    /\ source_rows = <<>>
    /\ dest_index = EmptyDict
    /\ inserts = <<>>
    /\ updates = <<>>
    /\ DEST_SHEETS = <<>> /\ dest_store = EmptyDict /\ src_map = EmptyDict
    /\ cursor = 0 /\ offset = 0 /\ attempt = 0 /\ total_updates = 0
    /\ calls = <<>> /\ faults = 0 /\ plans = <<>>
    /\ payload = <<>> /\ results = <<>> /\ status_code = 0 /\ sql = ""
    /\ dry_report = <<>> /\ edits = 0
    /\ other = NoInvocation
    /\ title_cache \in TitleCaches(job)

\* build_operations(rows of the source sheet, index of the destination
\* sheet) called on its own: its title GETs.
DirectTitles ==
    /\ job \in SyncJobs
    /\ pc = "input"
    /\ uncached_titles(job, title_cache) # <<>>
    /\ fetch_titles(uncached_titles(job, title_cache)[1], "input")

\* build_operations called on an arbitrary list of source rows, once the
\* column titles of both sheets are at hand.
PlanDirect ==
    /\ job \in SyncJobs
    /\ pc = "input"
    /\ uncached_titles(job, title_cache) = <<>>
    /\ LET idx == index_dest(job, dest_sheet)
           ops == build_operations(job, source_sheet, idx)
       IN  /\ source_rows' = source_sheet
           /\ dest_index' = idx
           /\ inserts' = ops.inserts
           /\ updates' = ops.updates
    /\ pc' = "planned_direct"
    /\ UNCHANGED <<envVars, source_sheet, dest_sheet, keyVars, dest_store,
                   cursor, offset, attempt, calls, faults, updaterVars>>

\* main() from its start to the return of build_operations, and
\* build_operations on its own.
NextPlan ==
    SyncStart \/ SyncIndex \/ SyncTitles \/ SyncPlan \/ DirectTitles \/ PlanDirect

SpecPlan == InitPlan /\ [][NextPlan]_vars

\* main() has got inserts and updates back from build_operations and has
\* written nothing yet.
PlannedByMain ==
    /\ job \in SyncJobs
    /\ pc \in {"insert", "update", "save"}
    /\ source_rows # <<>>
    /\ offset = 0
    /\ \A n \in DOMAIN calls : calls[n].method = "GET"
(***************************************************************************)
(* Tank harness: one source row and one destination row that agree in      *)
(* everything but the way their tank value is written, planned by a sync   *)
(* job or run through project-missing-check / status-update.               *)
(***************************************************************************)
\* The ways a tank value is written in a cell.
TankValues ==
    { Str("10"), Str("010"), Str("10.0"), Num(10), Str(" 10"), Str("11"),
      Str("T-7"), Str("t-7") }

InitTank ==
    /\ job \in SyncJobs \cup KeyJobs
    /\ DRY_RUN = FALSE
    /\ faults = 0
    /\ \E s \in TankValues, d \in TankValues :
          IF job \in SyncJobs
          THEN /\ pc = "start"
               /\ source_sheet =
                     << [id |-> 1,
                         cells |-> SrcRow(job, s, Str(ROW_VALUE_PROJECT),
                                          Str(ORDER_VALUE_PROJECT),
                                          Str(GateLiteral(job)), NTP_DATE)] >>
               /\ dest_sheet =
                     << [id |-> 101,
                         cells |-> DestRow(job, d, Str(ROW_VALUE_DEST(job)),
                                           Str(GateLiteral(job)), NTP_DATE)] >>
               /\ DEST_SHEETS = <<>>
               /\ dest_store = EmptyDict
          ELSE /\ pc = "start"
               /\ source_sheet =
                     << [id |-> 1,
                         cells |-> KeySrcRow(s, Str("Austin"), Str("TX"),
                                      IF job = "status" THEN Str("Active") ELSE None)] >>
               /\ dest_sheet = <<>>
               /\ DEST_SHEETS = << DestDescriptor(job, SheetA, "Erection", TRUE) >>
               /\ dest_store =
                     (SheetA :>
                        << [id |-> 101,
                            cells |-> KeyDestRow(d, Str("Austin"), Str("TX"),
                                         IF job = "status" THEN Str("Closed") ELSE None)] >>)
    /\ source_rows = <<>> /\ dest_index = EmptyDict
    /\ inserts = <<>> /\ updates = <<>> /\ src_map = EmptyDict
    /\ cursor = 0 /\ offset = 0 /\ attempt = 0 /\ total_updates = 0
    /\ calls = <<>> /\ plans = <<>>
    /\ payload = <<>> /\ results = <<>> /\ status_code = 0 /\ sql = ""
    /\ dry_report = <<>> /\ edits = 0
    /\ other = NoInvocation
    /\ title_cache = {}

NextTank ==
    SyncStart \/ SyncIndex \/ SyncTitles \/ SyncPlan \/ KeyStart \/ KeySheet \/ KeyPut

SpecTank == InitTank /\ [][NextTank]_vars

(***************************************************************************)
(* Properties of the planner                                               *)
(***************************************************************************)
Planned == PlannedByMain \/ pc = "planned_direct"

\* The row types and tank keys as the specification reads them: trimmed.
IsDestRowFor(j, drow, tank) ==
    /\ normalize(cell_value(drow.cells, DEST_ROW_COL(j))) = ROW_VALUE_DEST(j)
    /\ normalize(cell_value(drow.cells, DEST_TANK_COL(j))) = tank

\* At least one compared column differs after normalization: every mapped
\* column in identity-foundation-sync, the tracked status and the NTP date
\* in the two list-indexed jobs.
ComparedColumnsDiffer(j, scells, dcells) ==
    IF j = "foundation"
    THEN \E k \in DOMAIN COLUMN_MAP(j) :
            normalize(cell_value(scells, COLUMN_MAP(j)[k][1]))
              # normalize(cell_value(dcells, COLUMN_MAP(j)[k][2]))
    ELSE \/ normalize(cell_value(scells, SRC_GATE_COL(j)))
              # normalize(cell_value(dcells, DEST_TRACKED_COL(j)))
         \/ normalize(cell_value(scells, SRC_NTP_DATE_COL))
              # normalize(cell_value(dcells, DEST_NTP_DATE_COL(j)))

\* The operations in the planned lists are those of the source rows, one by one.
PlanIsPerRow ==
    /\ Len(inserts) = Cardinality({i \in DOMAIN source_rows :
                          plan_row(job, source_rows[i], dest_index).inserts # <<>>})
    /\ Len(updates) = Cardinality({i \in DOMAIN source_rows :
                          plan_row(job, source_rows[i], dest_index).updates # <<>>})

\* C1: for an eligible source row with a matching destination row, an Update
\* is emitted if and only if at least one compared column differs after
\* normalization (None and "" normalize to the same value).
C1_UpdateIffNormalizedDiff ==
    PlannedByMain =>
      /\ PlanIsPerRow
      /\ \A i \in DOMAIN source_rows :
            LET srow == source_rows[i]
                drow == lookup_dest_row(job,
                            tank_key_of(cell_value(srow.cells, SRC_TANK_COL)), dest_index)
            IN  (~is_skipped(job, srow.cells) /\ drow # <<>>) =>
                  ( plan_row(job, srow, dest_index).updates # <<>>
                    <=> ComparedColumnsDiffer(job, srow.cells, drow[1].cells) )

\* C1 restricted to identity-foundation-sync, where the diff is normalized.
C1_FoundationUpdateIffNormalizedDiff ==
    job = "foundation" => C1_UpdateIffNormalizedDiff

\* The stripped gate value of a source row is one of the accepted literals.
GateAccepted(j, scells) ==
    normalize(cell_value(scells, SRC_GATE_COL(j)))
      \in (IF j = "ground" THEN {"Required"} ELSE {"Phoenix", "Subcontractor"})

\* C2: insertion gate.  A source row whose gate field is not one of the
\* job's accepted literals produces no Insert, whether or not a destination
\* row exists for its tank key.
C2_InsertionGate ==
    Planned =>
      /\ PlanIsPerRow
      /\ \A i \in DOMAIN source_rows :
            ~GateAccepted(job, source_rows[i].cells) =>
               plan_row(job, source_rows[i], dest_index).inserts = <<>>
      /\ ((\A i \in DOMAIN source_rows : ~GateAccepted(job, source_rows[i].cells))
            => inserts = <<>>)

\* A row with a rejected gate value and no destination row for its tank was
\* planned, next to a row that was inserted.
C2_Witness ==
    /\ Planned
    /\ Len(inserts) = 1
    /\ \E i \in DOMAIN source_rows :
          /\ ~GateAccepted(job, source_rows[i].cells)
          /\ ~is_skipped(job, source_rows[i].cells)
          /\ lookup_dest_row(job, tank_key_of(cell_value(source_rows[i].cells, SRC_TANK_COL)),
                             dest_index) = <<>>

\* The source sheet is the single row of the Front-End - Site Work scenario
\* and no destination row of that row-type exists for tank "10".
C9_Scenario ==
    /\ job = "foundation"
    /\ PlannedByMain
    /\ Len(source_sheet) = 1
    /\ LET c == source_sheet[1].cells
       IN  /\ c[SRC_TANK_COL] = Str("10")
           /\ c[SRC_ROW_COL] = Str("Project")
           /\ c[SRC_ORDER_COL] = Str("0000 - Project")
           /\ c[SRC_FRONTEND_COL] = Str("Phoenix")
    /\ \A k \in DOMAIN dest_sheet : ~IsDestRowFor(job, dest_sheet[k], "10")

\* C9: the scenario yields exactly one Insert and no Update; the cells of the
\* Insert are the mapped column values of the source row followed by the
\* forced literals, among them row = "Front-End - Site Work".
C9_FrontEndInsert ==
    C9_Scenario =>
      LET c == source_sheet[1].cells
      IN  /\ updates = <<>>
          /\ inserts =
               << [ toBottom |-> TRUE,
                    cells |->
                      << Cell("492931382988676", c[SRC_TANK_COL]),
                         Cell("4996531010359172", c[SRC_SITE_NAME_COL]),
                         Cell("1055881336409988", c[SRC_NTP_DATE_COL]),
                         Cell("5559480963780484", c[SRC_CONTRACT_DAYS_COL]),
                         Cell("3307681150095236", c[SRC_NTP_COMPLETION_DATE_COL]),
                         Cell("5102084126625668", Str("Front-End - Site Work")),
                         Cell("1618831289831300", Str("Front-End - Site Work")),
                         Cell("598484499255172", Str("00002 - Front-End - Site Work")),
                         Cell("5102084126625668", Str("Front-End - Site Work")) >> ] >>

\* The scenario with a destination sheet that holds rows of another row-type
\* or another tank.
C9_Witness == C9_Scenario /\ Len(dest_sheet) = 2 /\ Len(inserts) = 1

\* The destination row of the insulation scenario: tank "10", row-type
\* "Insulation", insulation "" and no NTP date.
C10_IsScenarioDest(drow) ==
    /\ drow.cells[DEST_TANK_COL("insulation")] = Str("10")
    /\ drow.cells[DEST_ROW_COL("insulation")] = Str("Insulation")
    /\ drow.cells[DEST_INSULATION_COL] = Str("")
    /\ drow.cells[DEST_NTP_DATE_COL("insulation")] = None

\* One eligible source row for tank "10" with insulation "Phoenix" and NTP
\* date "2024-01-01"; destination row k is the scenario's row and the only
\* Insulation row of tank "10".
C10_Scenario(k) ==
    /\ job = "insulation"
    /\ PlannedByMain
    /\ Len(source_sheet) = 1
    /\ LET c == source_sheet[1].cells
       IN  /\ c[SRC_TANK_COL] = Str("10")
           /\ c[SRC_ROW_COL] = Str("Project")
           /\ c[SRC_ORDER_COL] = Str("0000 - Project")
           /\ c[SRC_INSULATION_COL] = Str("Phoenix")
           /\ c[SRC_NTP_DATE_COL] = Str("2024-01-01")
    /\ k \in DOMAIN dest_sheet
    /\ C10_IsScenarioDest(dest_sheet[k])
    /\ \A m \in DOMAIN dest_sheet :
          m # k => ~IsDestRowFor(job, dest_sheet[m], "10")

\* C10: the scenario yields no Insert and exactly one Update, of the matched
\* destination row, whose cells are insulation, NTP date, contract days and
\* NTP completion date.
C10_InsulationUpdate ==
    \A k \in 1..(MaxDest + 1) :
      C10_Scenario(k) =>
        LET c == source_sheet[1].cells
        IN  /\ inserts = <<>>
            /\ updates =
                 << [ id |-> dest_sheet[k].id,
                      cells |->
                        << Cell("3388751828701060", Str("Phoenix")),
                           Cell("1673513689370500", Str("2024-01-01")),
                           Cell("6177113316740996", c[SRC_CONTRACT_DAYS_COL]),
                           Cell("3925313503055748", c[SRC_NTP_COMPLETION_DATE_COL]) >> ] >>

\* The scenario with the matched row second in the destination sheet.
C10_Witness == C10_Scenario(2) /\ Len(updates) = 1

(***************************************************************************)
(* Properties of project-missing-check and status-update                   *)
(***************************************************************************)
Range(s) == { s[n] : n \in DOMAIN s }

\* A key component that is empty after normalization.
AnyComponentEmpty(cells, tank_col, city_col, state_col) ==
    \/ normalize(cell_value(cells, tank_col)) = ""
    \/ normalize(cell_value(cells, city_col)) = ""
    \/ normalize(cell_value(cells, state_col)) = ""

SourceKeyOf(row) == extract_key(row.cells, SRC_COL_TANK, SRC_COL_CITY, SRC_COL_STATE)

DestKeyOf(row, cols) == extract_key(row.cells, cols.tank, cols.city, cols.state)

IncompleteSource(row) ==
    AnyComponentEmpty(row.cells, SRC_COL_TANK, SRC_COL_CITY, SRC_COL_STATE)

IncompleteDest(row, cols) ==
    AnyComponentEmpty(row.cells, cols.tank, cols.city, cols.state)

\* The three parts of C3 for the running job.
IncompleteRowsExcluded ==
    /\ \A row \in Range(source_sheet) :
          IncompleteSource(row) => SourceKeyOf(row) = ""
    /\ \A key \in DOMAIN src_map :
          \E row \in Range(source_sheet) :
              ~IncompleteSource(row) /\ SourceKeyOf(row) = key
    /\ \A p \in Range(plans) : \A row \in Range(p.rows) :
          LET cols == DEST_SHEETS[p.sheet].cols
          IN  IncompleteDest(row, cols) =>
                  /\ DestKeyOf(row, cols) = ""
                  /\ \A u \in Range(p.updates) : u.id # row.id

\* C3: a row with an empty key component (tank, city or state) has the
\* invalid key, is never added to the source key set / map and, as a
\* destination row, never gets an update operation -- in project-missing
\* -check and in status-update.
C3_IncompleteRowsExcluded == job \in KeyJobs => IncompleteRowsExcluded

\* The same for project-missing-check/__init__.py alone.
C3_MissingCheckExcludesIncompleteRows == job = "missing" => IncompleteRowsExcluded

\* The keys of the complete rows of the source sheet.
ValidSourceKeys == { SourceKeyOf(row) : row \in Range(source_sheet) } \ {""}

SetsMissingTrue(u, cols) == u.cells = << Cell(cols.missing, Bool(TRUE)) >>

\* The destination row should be flagged.
IsMissing(row, cols) ==
    DestKeyOf(row, cols) # "" /\ DestKeyOf(row, cols) \notin ValidSourceKeys

AllCallsSucceeded == \A c \in Range(calls) : c.method # "SLEEP" => c.status = 200

\* The GET of the source sheet was answered with the rows of the sheet.
SourceFetched == calls # <<>> /\ calls[1].status = 200

\* An update is planned that sets the "missing" column of the row to True.
FlaggedTrue(p, row, cols) ==
    \E u \in Range(p.updates) : u.id = row.id /\ SetsMissingTrue(u, cols)

\* After a live run in which no call failed, the rows that read True in the
\* sheets whose descriptor names the "missing" column are the missing ones.
MissingRowsReadTrue ==
    (pc = "returned" /\ ~DRY_RUN /\ AllCallsSucceeded) =>
       \A n \in 1..Len(DEST_SHEETS) :
          LET cols == DEST_SHEETS[n].cols
          IN  "missing" \in DOMAIN cols =>
                 \A row \in Range(dest_store[DEST_SHEETS[n].sheet_id]) :
                    cell_value(row.cells, cols.missing) = Bool(TRUE)
                       <=> IsMissing(row, cols)

\* C5: in project-missing-check, for every destination sheet the job has
\* planned, a destination row gets an update setting its "missing" column
\* to True iff its key tank|city|state is valid and not among the valid
\* keys of the source sheet, so that a row whose key is present in the
\* source is never set to True; after a live run without a failed call
\* exactly those rows read True.
C5_MissingFlagIffKeyAbsent ==
    job \in MissingJobs =>
        /\ \A p \in Range(plans) :
              LET cols == DEST_SHEETS[p.sheet].cols
              IN  \A row \in Range(p.rows) :
                     FlaggedTrue(p, row, cols) <=> IsMissing(row, cols)
        /\ MissingRowsReadTrue

\* C5 (as the code behaves): a row is set to True iff its key is valid and
\* not among the keys the run has loaded, which are the valid keys of the
\* source sheet when its GET succeeded and none when it failed;
\* __init__.py plans nothing else and nothing at all after a failed GET,
\* __init__copy1.py plans an update for every row, False where not True.
C5_FlagIffKeyNotLoaded ==
    job \in MissingJobs =>
        /\ (cursor >= 1 /\ SourceFetched) => DOMAIN src_map = ValidSourceKeys
        /\ (cursor >= 1 /\ ~SourceFetched) =>
              job = "missing_copy1" /\ src_map = EmptyDict
        /\ \A p \in Range(plans) :
              LET cols == DEST_SHEETS[p.sheet].cols
              IN  /\ \A row \in Range(p.rows) :
                        /\ FlaggedTrue(p, row, cols)
                             <=> ( /\ DestKeyOf(row, cols) # ""
                                   /\ DestKeyOf(row, cols) \notin DOMAIN src_map )
                        /\ job = "missing_copy1" =>
                              Cardinality({ k \in DOMAIN p.updates :
                                              p.updates[k].id = row.id }) = 1
                  /\ \A u \in Range(p.updates) :
                        /\ \E row \in Range(p.rows) : row.id = u.id
                        /\ IF job = "missing" THEN SetsMissingTrue(u, cols)
                           ELSE \E b \in BOOLEAN :
                                   u.cells = << Cell(cols.missing, Bool(b)) >>
        /\ MissingRowsReadTrue

\* __init__copy1.py has planned a sheet after a failed GET of the source
\* sheet, and a row whose key is in the source sheet is set to True.
C5_PresentRowFlagged ==
    /\ job = "missing_copy1" /\ ~SourceFetched
    /\ \E p \in Range(plans) : \E row \in Range(p.rows) :
          LET cols == DEST_SHEETS[p.sheet].cols
          IN  /\ DestKeyOf(row, cols) \in ValidSourceKeys
              /\ FlaggedTrue(p, row, cols)

\* The status of the last source row with the key: the source status the
\* job propagates.
SourceStatus(key) ==
    LET hits == { n \in 1..Len(source_sheet) : SourceKeyOf(source_sheet[n]) = key }
        last == CHOOSE n \in hits : \A m \in hits : m <= n
    IN  IF key = "" \/ hits = {} THEN None
        ELSE cell_value(source_sheet[last].cells, SRC_COL_STATUS)

\* The source status the run loaded for the key of the row: src_map.get(key).
LoadedStatus(row, cols) == src_status_of(src_map, DestKeyOf(row, cols))

\* An update is planned for a row only when its trimmed status differs from
\* the trimmed source status the run loaded for its key.
UpdatesOnlyWhereDifferent ==
    \A p \in Range(plans) :
       LET cols == DEST_SHEETS[p.sheet].cols
       IN  \A u \in Range(p.updates) : \A row \in Range(p.rows) :
              row.id = u.id =>
                 normalize(cell_value(row.cells, cols.status))
                    # normalize(LoadedStatus(row, cols))

\* Every row of the n-th destination sheet whose key is a source key has
\* the trimmed source status of the key.
SheetHasSourceStatuses(n) ==
    LET cols == DEST_SHEETS[n].cols
    IN  \A row \in Range(dest_store[DEST_SHEETS[n].sheet_id]) :
           DestKeyOf(row, cols) \in ValidSourceKeys =>
              normalize(cell_value(row.cells, cols.status))
                 = normalize(SourceStatus(DestKeyOf(row, cols)))

\* A status of the n-th destination sheet, or the source status of the key
\* of one of its rows, is a value str.strip() is not defined on (a number,
\* True).
HasStatusThatIsNotText(n) ==
    LET cols == DEST_SHEETS[n].cols
    IN  \E row \in Range(dest_store[DEST_SHEETS[n].sheet_id]) :
           \/ strip_raises(cell_value(row.cells, cols.status))
           \/ strip_raises(src_status_of(src_map, dest_key(row.cells, cols)))

\* C6: in status-update, after a live run in which every fetch and write
\* succeeded, every row of a validly configured destination sheet whose
\* key equals a source key has the trimmed source status of that key; and
\* an update is planned for a row only when its trimmed status differs
\* from the trimmed source status.
C6_StatusPropagated ==
    job = "status" =>
        /\ (pc = "returned" /\ ~DRY_RUN /\ AllCallsSucceeded) =>
              \A n \in 1..Len(DEST_SHEETS) :
                 validate_dest_sheet(job, DEST_SHEETS[n]) => SheetHasSourceStatuses(n)
        /\ UpdatesOnlyWhereDifferent

\* C6 (as the code behaves): the statuses are propagated in the sheets
\* whose statuses, and the source statuses of whose rows, are text or
\* blank; a sheet with any other status is left as it was.  An update is
\* planned only where the two trimmed statuses differ.
C6_StatusPropagatedWhereText ==
    job = "status" =>
        /\ (pc = "returned" /\ ~DRY_RUN /\ AllCallsSucceeded) =>
              \A n \in 1..Len(DEST_SHEETS) :
                 (validate_dest_sheet(job, DEST_SHEETS[n]) /\ ~HasStatusThatIsNotText(n))
                    => SheetHasSourceStatuses(n)
        /\ UpdatesOnlyWhereDifferent

\* A live run has returned, every call answered 200, and a row whose key is
\* in the source still has another status than the source: the sheet holds
\* a numeric status in another row and no update was sent to it.
C6_StaleStatusAfterCleanRun ==
    /\ job = "status" /\ pc = "returned" /\ ~DRY_RUN /\ AllCallsSucceeded
    /\ \A c \in Range(calls) : c.method # "PUT"
    /\ \E n \in 1..Len(DEST_SHEETS) :
          LET cols == DEST_SHEETS[n].cols
              rows == dest_store[DEST_SHEETS[n].sheet_id]
          IN  /\ validate_dest_sheet(job, DEST_SHEETS[n])
              /\ \E row \in Range(rows) :
                    /\ DestKeyOf(row, cols) \in ValidSourceKeys
                    /\ SourceStatus(DestKeyOf(row, cols)) = Str("Active")
                    /\ cell_value(row.cells, cols.status) = Str("Closed")
              /\ \E row \in Range(rows) : cell_value(row.cells, cols.status) = Num(5)

\* A live run that rewrote the status of a row whose key is in the source.
C6_StatusRewritten ==
    /\ job = "status" /\ pc = "returned" /\ ~DRY_RUN /\ AllCallsSucceeded
    /\ \E p \in Range(plans) : \E row \in Range(p.rows) :
          LET cols == DEST_SHEETS[p.sheet].cols
          IN  /\ DestKeyOf(row, cols) \in ValidSourceKeys
              /\ SourceStatus(DestKeyOf(row, cols)) = Str(" Active ")
              /\ cell_value(row.cells, cols.status) = Str("Closed")
              /\ \E u \in Range(p.updates) : u.id = row.id
              /\ \E now \in Range(dest_store[DEST_SHEETS[p.sheet].sheet_id]) :
                    now.id = row.id /\ now.cells[cols.status] = Str("Active")

(***************************************************************************)
(* Properties of project-smartsheet-updater                                *)
(***************************************************************************)
\* The rows of a sheet, as get_sheet() returned it, that match obj on
\* Tank #, City and State, by position.
MatchingRows(obj, rows) ==
    { n \in 1..Len(rows) :
        row_matcher(rows[n], obj, get_column_map(resolve_candidate_sheet(obj))) }

\* The Duration, Start Date and End Date cells of a row of the sheet.
ReturnValuesOf(sheet_id, row) ==
    LET col_map == get_column_map(sheet_id)
        names == {"Duration", "Start Date", "End Date"} \cap DOMAIN col_map
    IN  [name \in names |-> row.cells[col_map[name]]]

\* The entry of the results list for obj, whose sheet the request read as
\* `rows`.
IsResultFor(entry, obj, rows) ==
    /\ \A f \in DOMAIN obj : f \in DOMAIN entry /\ entry[f] = obj[f]
    /\ IF MatchingRows(obj, rows) = {}
       THEN "error" \in DOMAIN entry /\ "smartsheet" \notin DOMAIN entry
       ELSE LET sheet_id == resolve_candidate_sheet(obj)
                first == CHOOSE n \in MatchingRows(obj, rows) :
                             \A m \in MatchingRows(obj, rows) : n <= m
                row == rows[first]
            IN  /\ "error" \notin DOMAIN entry
                /\ "smartsheet" \in DOMAIN entry
                /\ entry.smartsheet.sheetId = sheet_id
                /\ entry.smartsheet.rowId = row.id
                /\ entry.smartsheet.values = ReturnValuesOf(sheet_id, row)

\* C7: when the updater answers 200, the results list has one entry per
\* input object, in input order; the sheet of the object's department was
\* read once for it; the entry of an object no row of that sheet, as read,
\* matches on Tank #, City and State carries `error`, the entry of a
\* matched object carries the sheet id, the row id and the return values
\* of the first matching row, whatever other clients have written to the
\* sheet since.
C7_ResultsMirrorInput ==
    (job = "updater" /\ status_code = 200) =>
        /\ Len(results) = Len(payload)
        /\ Len(plans) = Len(payload)
        /\ \A n \in 1..Len(payload) :
              /\ plans[n].sheet = resolve_candidate_sheet(payload[n])
              /\ IsResultFor(results[n], payload[n], plans[n].rows)

\* A 200 response to two objects: the first matched by two rows of its
\* sheet, of which the first one no longer matches, another client having
\* overwritten it after the request read the sheet; the second unmatched.
C7_Witness ==
    /\ job = "updater" /\ status_code = 200 /\ Len(payload) = 2
    /\ Cardinality(MatchingRows(payload[1], plans[1].rows)) = 2
    /\ 1 \notin MatchingRows(payload[1], dest_store[plans[1].sheet])
    /\ MatchingRows(payload[2], plans[2].rows) = {}
    /\ "smartsheet" \in DOMAIN results[1]
    /\ results[1].smartsheet.rowId = plans[1].rows[1].id
    /\ "error" \in DOMAIN results[2]
(***************************************************************************)
(* Claims on the batching of writes (SpecChunk)                            *)
(***************************************************************************)
\* The POST and PUT requests of the behaviour so far, in order.
WriteCalls == SelectSeq(calls, IsWrite)

\* The number of operations each of them carried.
WriteSizes == [n \in 1..Len(WriteCalls) |-> Len(WriteCalls[n].body)]

\* Their bodies, one after the other.
RECURSIVE Flatten(_)
Flatten(bodies) ==
    IF bodies = <<>> THEN <<>> ELSE Head(bodies) \o Flatten(Tail(bodies))

WrittenOps == Flatten([n \in 1..Len(WriteCalls) |-> WriteCalls[n].body])

\* The list being written.
PendingList == IF inserts # <<>> THEN inserts ELSE updates

\* bulk_insert / bulk_update has returned.
ChunkDone == IF job \in SyncJobs THEN pc = "save" ELSE pc # "put"

\* C8: when no call fails, every write call carries at most 500 operations,
\* the calls so far carry consecutive slices of the pending list in its
\* order, and once the list is written the number of write calls is
\* ceil(N/500) and the slices together are the list, every operation once;
\* 1200 pending operations are written in 3 calls of sizes 500, 500, 200.
C8_BatchChunking ==
    /\ \A n \in 1..Len(WriteSizes) : WriteSizes[n] <= 500
    /\ Len(WrittenOps) <= Len(PendingList)
    /\ WrittenOps = SubSeq(PendingList, 1, Len(WrittenOps))
    /\ ChunkDone =>
          /\ Len(WriteCalls) = (Len(PendingList) + 499) \div 500
          /\ WrittenOps = PendingList
          /\ Len(PendingList) = 1200 => WriteSizes = <<500, 500, 200>>

\* 1200 pending operations were written in three calls of 500, 500 and 200.
C8_Witness ==
    /\ ChunkDone
    /\ Len(PendingList) = 1200
    /\ WriteSizes = <<500, 500, 200>>
    /\ WrittenOps = PendingList

(***************************************************************************)
(* Claims on dry runs (Spec)                                               *)
(***************************************************************************)
\* The number of row operations sent with `method` in the behaviour so far.
OpsSent(method) ==
    LET sent == SelectSeq(calls, LAMBDA c : c.method = method)
    IN  Len(Flatten([n \in 1..Len(sent) |-> sent[n].body]))

\* What the run attempted, counted as the dry run reports it.
Attempted ==
    IF job \in SyncJobs THEN << OpsSent("POST"), OpsSent("PUT") >>
    ELSE << OpsSent("PUT") >>

\* No request of the run so far came back with an error status.
NoCallFailed ==
    \A n \in DOMAIN calls : "status" \in DOMAIN calls[n] => calls[n].status < 400

\* No two descriptors of the configuration name the same sheet.
SheetsListedOnce ==
    \A a, b \in DOMAIN DEST_SHEETS :
       DEST_SHEETS[a].sheet_id = DEST_SHEETS[b].sheet_id => a = b

\* C4: while the dry-run flag of the job is set, the run sends no POST and
\* no PUT to the sheet service; and the counts a dry run reported (planned
\* inserts and updates of a sync job, rows that would be updated by
\* project-missing-check and status-update, matched objects of the updater)
\* are the counts of operations the live run on the same sheets sends when
\* it ends normally with no failed call.
C4_DryRunWritesNothing ==
    /\ DRY_RUN => \A n \in DOMAIN calls : ~IsWrite(calls[n])
    /\ (~DRY_RUN /\ dry_report # <<>> /\ Completed /\ NoCallFailed)
          => Attempted = dry_report

\* C4 (as the code behaves): no write is sent under the flag; the counts
\* of the dry run are those of the live run except in status-update with a
\* sheet that DEST_SHEETS_JSON lists more than once.
C4_DryRunCountsWhereSheetsListedOnce ==
    /\ DRY_RUN => \A n \in DOMAIN calls : ~IsWrite(calls[n])
    /\ ( /\ ~DRY_RUN /\ dry_report # <<>> /\ Completed /\ NoCallFailed
         /\ job = "status" => SheetsListedOnce )
          => Attempted = dry_report

\* status-update with one sheet listed twice: the dry run counted every
\* row to update once per listing, the live run sent each update once.
C4_ListedTwiceCountedTwice ==
    /\ job = "status" /\ ~DRY_RUN /\ Completed /\ NoCallFailed
    /\ ~SheetsListedOnce
    /\ Attempted[1] > 0
    /\ dry_report = << 2 * Attempted[1] >>

\* A live run has finished the operations a dry run had reported on the
\* same sheets, and there was at least one.
C4_CountsAgree ==
    /\ ~DRY_RUN
    /\ dry_report # <<>>
    /\ \E n \in DOMAIN dry_report : dry_report[n] > 0
    /\ Completed
    /\ NoCallFailed
    /\ Attempted = dry_report
(***************************************************************************)
(* Claims on the linked NTP group (SpecPlan)                               *)
(***************************************************************************)
\* The destination columns of the linked group of job j.
LinkedDestCols(j) ==
    { DEST_NTP_DATE_COL(j), DEST_CONTRACT_DAYS_COL(j), DEST_NTP_COMPLETION_DATE_COL(j) }

\* The columns an operation carries a cell for.
ColumnsOf(op) == { op.cells[n].columnId : n \in DOMAIN op.cells }

\* One of the three linked values of the source row differs from the
\* destination row's, after normalization.
LinkedDiffers(j, scells, dcells) ==
    \/ normalize(cell_value(scells, SRC_NTP_DATE_COL))
         # normalize(cell_value(dcells, DEST_NTP_DATE_COL(j)))
    \/ normalize(cell_value(scells, SRC_CONTRACT_DAYS_COL))
         # normalize(cell_value(dcells, DEST_CONTRACT_DAYS_COL(j)))
    \/ normalize(cell_value(scells, SRC_NTP_COMPLETION_DATE_COL))
         # normalize(cell_value(dcells, DEST_NTP_COMPLETION_DATE_COL(j)))

\* An Update carries none of the three linked cells or all three.
C11_LinkedGroupNeverPartial ==
    (Planned /\ job # "foundation") =>
       \A n \in DOMAIN updates :
          LET got == ColumnsOf(updates[n]) \cap LinkedDestCols(job)
          IN  got = {} \/ got = LinkedDestCols(job)

\* C11: in the ground-improvement and insulation jobs, whenever one of NTP
\* date, contract days and NTP completion date differs between an eligible
\* source row and its matched destination row, an Update of that row is
\* emitted and carries all three cells; and no Update carries only one or
\* two of the three.
C11_LinkedGroupTogether ==
    (Planned /\ job # "foundation") =>
       /\ C11_LinkedGroupNeverPartial
       /\ PlanIsPerRow
       /\ \A i \in DOMAIN source_rows :
             LET srow == source_rows[i]
                 drow == lookup_dest_row(job,
                             tank_key_of(cell_value(srow.cells, SRC_TANK_COL)), dest_index)
                 ups  == plan_row(job, srow, dest_index).updates
             IN  (~is_skipped(job, srow.cells) /\ drow # <<>>
                    /\ LinkedDiffers(job, srow.cells, drow[1].cells))
                 => /\ ups # <<>>
                    /\ ups[1].id = drow[1].id
                    /\ LinkedDestCols(job) \subseteq ColumnsOf(ups[1])

(***************************************************************************)
(* Claims on failed calls (SpecKey, SpecSync)                              *)
(***************************************************************************)
\* The run of project-missing-check / status-update is over.
KeyRunOver == pc \in {"returned", "fatal"}

\* Call n is a PUT and the last attempt of its chunk: no retry of the same
\* body on the same sheet follows the sleep after it.
FinalAttempt(n) ==
    /\ calls[n].method = "PUT"
    /\ ~ /\ n + 2 <= Len(calls)
         /\ calls[n + 1].method = "SLEEP"
         /\ calls[n + 2].method = "PUT"
         /\ calls[n + 2].sheet = calls[n].sheet
         /\ calls[n + 2].body = calls[n].body

\* The failure of PUT n is logged as a failure: status-update and
\* __init__copy1.py log "Failed updating sheet" for an error status other
\* than 429; a 429 is logged as "Rate limited ..., retrying".
FailureLogged(n) == job # "missing" /\ calls[n].status >= 400 /\ calls[n].status # 429

\* The operations of the PUT requests that were answered 2xx.
OpsAccepted ==
    LET ok == SelectSeq(calls, LAMBDA c : c.method = "PUT" /\ c.status < 300)
    IN  Len(Flatten([n \in 1..Len(ok) |-> ok[n].body]))

\* A non-2xx answer other than 429 to a chunk of project-missing-check
\* /__init__.py ends the run in the top-level handler, which logs the
\* exception.
C12_MissingCheckErrorSurfaces ==
    (job = "missing" /\ KeyRunOver) =>
       \A n \in DOMAIN calls :
          (calls[n].method = "PUT" /\ calls[n].status >= 400 /\ calls[n].status # 429)
             => (pc = "fatal" /\ n = Len(calls))

\* C12: in project-missing-check and status-update a chunk whose final
\* response is non-2xx -- also one rate-limited on the retry as on the first
\* attempt -- is raised or logged as a failure, and its rows are not counted
\* among the rows the run reports as updated.
C12_FailedWriteNeverDropped ==
    (job \in KeyJobs /\ ~DRY_RUN /\ KeyRunOver) =>
       /\ \A n \in DOMAIN calls :
             (FinalAttempt(n) /\ calls[n].status >= 300)
                => (pc = "fatal" \/ FailureLogged(n))
       /\ pc = "returned" => total_updates = OpsAccepted

\* The loop over DEST_SHEETS was entered: the source keys were loaded.
SheetLoopEntered == cursor >= 1

\* The destination sheets the job does not skip for their configuration.
ProcessedSheets ==
    { k \in DOMAIN DEST_SHEETS :
        job # "missing" => validate_dest_sheet(job, DEST_SHEETS[k]) }

\* The rows of destination sheet k were requested.
SheetFetched(k) ==
    \E n \in DOMAIN calls :
       /\ n > 1
       /\ calls[n].method = "GET"
       /\ calls[n].sheet = DEST_SHEETS[k].sheet_id

\* Every destination sheet is reached once the loop over them was entered.
EverySheetReached ==
    (KeyRunOver /\ SheetLoopEntered) => \A k \in ProcessedSheets : SheetFetched(k)

\* status-update and __init__copy1.py, which wrap each sheet in a try of
\* its own, reach every destination sheet whatever fails on the way.
C13_LocalHandlersReachEverySheet == job \in KeyJobs \ {"missing"} => EverySheetReached

\* C13: in project-missing-check and status-update an error while fetching,
\* planning or writing one destination sheet does not end the loop: every
\* destination sheet after it in the configured list is still fetched and
\* processed in the same run.
C13_LaterSheetsProcessed == job \in KeyJobs => EverySheetReached

\* The entry point has ended: returned, raised, or answered the request.
RunOver == pc \in {"returned", "raised", "fatal", "responded"}

\* Call n is a request that came back with an error status.
CallFailed(n) == "status" \in DOMAIN calls[n] /\ calls[n].status >= 400

\* project-missing-check stopped at a flagged row of a destination sheet
\* whose descriptor has no "missing" column (KeyError).
MissingColumnError ==
    /\ job = "missing"
    /\ cursor \in DOMAIN DEST_SHEETS
    /\ calls # <<>>
    /\ calls[Len(calls)].method = "GET"
    /\ calls[Len(calls)].status = 200
    /\ calls[Len(calls)].sheet = DEST_SHEETS[cursor].sheet_id
    /\ plan_raises(job, dest_store[DEST_SHEETS[cursor].sheet_id],
                   DEST_SHEETS[cursor].cols, src_map)

\* An error got past every local handler of the job to the try block of
\* its entry point.
ErrorReachedTopLevel ==
    CASE job \in SyncJobs ->
           \E n \in DOMAIN calls :
              CallFailed(n) /\ (calls[n].method \in {"GET", "BLOB"} \/ job = "foundation")
      [] job = "missing" ->
           \/ \E n \in DOMAIN calls : CallFailed(n) /\ calls[n].status # 429
           \/ MissingColumnError
      [] job \in {"status", "missing_copy1"} -> FALSE
      [] job = "updater" ->
           \/ \E n \in DOMAIN calls : CallFailed(n)
           \/ cursor \in DOMAIN payload /\ department_invalid(payload[cursor])

\* The invocation ended as a failure: the exception went to the trigger, or
\* (HTTP trigger) the answer is a 500.
EndedAsFailure == pc = "raised" \/ (job = "updater" /\ status_code = 500)

\* The sync jobs re-raise: a finished run was raised exactly when an error
\* reached the top level.
C14_SyncJobsReraise ==
    (job \in SyncJobs /\ RunOver) => (ErrorReachedTopLevel <=> pc = "raised")

\* project-missing-check ends in its logging handler exactly when an error
\* reached the top level; the updater answers 500 exactly then.
C14_HandlerReachedIffError ==
    (job \in KeyJobs \cup {"updater"} /\ RunOver) =>
       (ErrorReachedTopLevel <=> (pc = "fatal" \/ status_code = 500))

\* C14: in every job an error that reaches the top level of the entry point
\* is re-raised to the trigger: the invocation ends as a failure, never as
\* a normal completion.
C14_TopLevelErrorReraised ==
    (RunOver /\ ErrorReachedTopLevel) => EndedAsFailure

\* The requests of one kind a sync job sent, in order.
CallsOf(method) == SelectSeq(calls, LAMBDA c : c.method = method)

\* The planned list a kind of request writes.
ListOf(method) == IF method = "POST" THEN inserts ELSE updates

\* The writing of the sync job is over and was not left undone by a dry
\* run or an earlier error.
WritingOver ==
    /\ job \in {"ground", "insulation"}
    /\ ~DRY_RUN
    /\ pc \in {"save", "returned", "raised"}
    /\ \A n \in DOMAIN calls : calls[n].method = "GET" => calls[n].status = 200
    /\ source_rows # <<>>

\* What the code does: a failed chunk is followed by one request per row of
\* the chunk, in order, whether or not earlier rows failed, and the update
\* list is written after the insert list whatever failed there.
C15_FailedChunkGoesRowByRow ==
    WritingOver =>
       \A method \in {"POST", "PUT"} :
          LET w == CallsOf(method)
              list == ListOf(method)
          IN  /\ list = <<>> <=> w = <<>>
              /\ list # <<>> =>
                    /\ w[1].body = list
                    /\ IF w[1].status < 400 THEN Len(w) = 1
                       ELSE /\ Len(w) = 1 + Len(list)
                            /\ \A i \in DOMAIN list : w[1 + i].body = << list[i] >>

\* C15: in the ground-improvement and insulation jobs a failed chunk write
\* is retried once as a whole chunk; only when the retry fails too is every
\* row of the chunk sent in a request of its own, each of them whether or
\* not the others failed; and the writes after the chunk are not skipped.
C15_ChunkRetriedThenRowByRow ==
    WritingOver =>
       \A method \in {"POST", "PUT"} :
          LET w == CallsOf(method)
              list == ListOf(method)
          IN  /\ list = <<>> <=> w = <<>>
              /\ list # <<>> =>
                    /\ w[1].body = list
                    /\ IF w[1].status < 400 THEN Len(w) = 1
                       ELSE /\ Len(w) >= 2
                            /\ w[2].body = list
                            /\ IF w[2].status < 400 THEN Len(w) = 2
                               ELSE /\ Len(w) = 2 + Len(list)
                                    /\ \A i \in DOMAIN list :
                                          w[2 + i].body = << list[i] >>

(***************************************************************************)
(* Multi-page fetch (sync jobs)                                            *)
(***************************************************************************)
\* The GETs made so far of the sheet with the given id.
GetsOf(sheet_id) ==
    SelectSeq(calls, LAMBDA c : c.method = "GET" /\ c.sheet = sheet_id)

\* How often a row occurs in a list of rows.
Occurrences(rows, row) == Len(SelectSeq(rows, LAMBDA r : r = row))

SourceFetchOver == job \in SyncJobs /\ pc \in {"index", "plan"} \cup TitlePcs
DestFetchOver == job \in SyncJobs /\ pc \in {"plan"} \cup TitlePcs

\* The rows held by the destination index under a key.
IndexedUnder(key) ==
    IF key \notin DOMAIN dest_index THEN <<>>
    ELSE IF job = "foundation" THEN <<dest_index[key]>>
    ELSE dest_index[key]

\* The rows of the destination sheet the indexers keep under a key, taken
\* over the whole sheet.
OwnedUnder(key) ==
    SelectSeq(dest_sheet,
        LAMBDA r : is_indexed(job, r)
                   /\ tank_key_of(cell_value(r.cells, DEST_TANK_COL(job))) = key)

OwnedKeys ==
    { tank_key_of(cell_value(dest_sheet[m].cells, DEST_TANK_COL(job))) :
        m \in { n \in 1..Len(dest_sheet) : is_indexed(job, dest_sheet[n]) } }

\* C16 (destination side, as the code behaves): the destination indexers
\* page through the whole sheet: the index holds, per key, every owned row
\* of the sheet once and in sheet order (the last one for the single-row
\* index of identity-foundation-sync), and the GETs stop with the first
\* page shorter than the page size, all earlier pages being full.
C16_DestinationPagedToTheEnd ==
    DestFetchOver =>
        LET gets == Len(GetsOf(DEST_SHEET_ID(job)))
        IN  /\ DOMAIN dest_index = OwnedKeys
            /\ \A key \in OwnedKeys :
                  IF job = "foundation"
                  THEN dest_index[key] = OwnedUnder(key)[Len(OwnedUnder(key))]
                  ELSE dest_index[key] = OwnedUnder(key)
            /\ gets >= 1
            /\ Len(page_of(dest_sheet, gets)) < page_size
            /\ \A p \in 1..(gets - 1) : Len(page_of(dest_sheet, p)) = page_size

\* C16 (source side, as the code behaves): one GET of the source sheet is
\* made and the job works on the candidates of its first page only.
C16_SourceIsFirstPageOnly ==
    SourceFetchOver =>
        /\ Len(GetsOf(SOURCE_SHEET_ID)) = 1
        /\ source_rows = SelectSeq(page_of(source_sheet, 1),
                                   LAMBDA r : is_source_candidate(job, r))

\* C16: for a sheet of more rows than one page, every row is retrieved
\* exactly once and considered by the job, for the source sheet as well as
\* for the destination sheet.
C16_EveryRowRetrievedOnce ==
    /\ SourceFetchOver =>
          \A m \in 1..Len(source_sheet) :
             is_source_candidate(job, source_sheet[m])
                => Occurrences(source_rows, source_sheet[m]) = 1
    /\ DestFetchOver =>
          \A key \in OwnedKeys :
             \A m \in 1..Len(OwnedUnder(key)) :
                job # "foundation"
                   => Occurrences(IndexedUnder(key), OwnedUnder(key)[m]) = 1

\* A destination sheet of more than two pages has been indexed.
C16_Witness ==
    /\ DestFetchOver
    /\ Len(dest_sheet) > 2 * page_size
    /\ Len(GetsOf(DEST_SHEET_ID(job))) = 3
(***************************************************************************)
(* Rate-limit retry of bulk_update (project-missing-check, status-update)  *)
(***************************************************************************)
IsPut(n) == n \in DOMAIN calls /\ calls[n].method = "PUT"

\* The position of the last PUT before position n, 0 if there is none.
PrevPut(n) ==
    LET before == { m \in 1..(n - 1) : IsPut(m) }
    IN  IF before = {} THEN 0 ELSE CHOOSE m \in before : \A k \in before : k <= m

\* The position of the first PUT after position n, 0 if there is none.
NextPut(n) ==
    LET after == { m \in (n + 1)..Len(calls) : IsPut(m) }
    IN  IF after = {} THEN 0 ELSE CHOOSE m \in after : \A k \in after : m <= k

\* Two PUTs of one chunk: the same rows to the same sheet, the sheet not
\* fetched again in between.
SameChunk(a, b) ==
    /\ calls[a].sheet = calls[b].sheet
    /\ calls[a].body = calls[b].body
    /\ \A m \in a..b : calls[m].method # "GET"

\* The PUT at n is a further attempt at the chunk of the PUT before it.
IsRetry(n) == IsPut(n) /\ PrevPut(n) # 0 /\ SameChunk(PrevPut(n), n)

\* C17: a chunk is PUT at most twice; the second attempt is made only if
\* the first returned 429 and only after the 3-second sleep; a response
\* other than 429 ends the attempts at the chunk; and after a first 429
\* nothing else is requested before the chunk has been sent again.
C17_RetryOnceOnRateLimit ==
    job \in KeyJobs =>
        \A n \in DOMAIN calls :
            IsPut(n) =>
                /\ IsRetry(n) =>
                      /\ ~IsRetry(PrevPut(n))
                      /\ calls[PrevPut(n)].status = 429
                      /\ PrevPut(n) = n - 2
                      /\ calls[n - 1] = Sleep(3)
                /\ calls[n].status # 429 /\ NextPut(n) # 0 =>
                      ~SameChunk(n, NextPut(n))
                /\ calls[n].status = 429 =>
                      /\ n + 1 \in DOMAIN calls /\ calls[n + 1] = Sleep(RETRY_DELAY)
                      /\ ~IsRetry(n) /\ n + 2 \in DOMAIN calls =>
                            IsPut(n + 2) /\ SameChunk(n, n + 2)
                      /\ ~IsRetry(n) /\ n + 2 \notin DOMAIN calls =>
                            pc = "put" /\ attempt = 1
                      /\ IsRetry(n) /\ NextPut(n) # 0 => ~SameChunk(n, NextPut(n))

\* The first chunk of three was rate limited twice and the second chunk
\* was then sent: PUT 429, sleep, PUT 429, sleep, PUT of the next chunk.
C17_Witness ==
    /\ job \in KeyJobs
    /\ Len(calls) >= 5
    /\ calls[1].method = "PUT" /\ calls[1].status = 429
    /\ calls[2] = Sleep(3)
    /\ IsRetry(3) /\ calls[3].status = 429
    /\ calls[4] = Sleep(3)
    /\ IsPut(5) /\ ~SameChunk(3, 5)
    /\ Len(calls[5].body) = MAX_BATCH

(***************************************************************************)
(* The payload of an Update (sync jobs)                                    *)
(***************************************************************************)
\* The destination row build_operations matches a source row with, as a
\* sequence: <<>> when there is none.
MatchedRow(srow) ==
    lookup_dest_row(job, tank_key_of(cell_value(srow.cells, SRC_TANK_COL)), dest_index)

\* The Updates planned for a source row (none or one).
UpdatesFor(srow) == plan_row(job, srow, dest_index).updates

\* The cell of an Update changes nothing: the destination row already holds
\* exactly the value it carries.
CellUnchanged(c, drow) == c.value = cell_value(drow.cells, c.columnId)

\* C18 (as the code behaves): every Update carries the identifier of the
\* destination row matched for the tank of its source row, and at least
\* one cell.
C18_UpdateTargetsMatchedRow ==
    Planned =>
      /\ PlanIsPerRow
      /\ \A i \in DOMAIN source_rows :
            \A k \in DOMAIN UpdatesFor(source_rows[i]) :
               LET op == UpdatesFor(source_rows[i])[k]
                   drow == MatchedRow(source_rows[i])
               IN  /\ drow # <<>>
                   /\ op.id = drow[1].id
                   /\ op.cells # <<>>
                   /\ \E n \in DOMAIN updates : updates[n] = op

\* C18: every Update carries the identifier of the matched destination row
\* and only cells whose values differ between source and destination: no
\* cell for a column the destination row already holds the same value in.
C18_UpdateCarriesOnlyChangedCells ==
    Planned =>
      /\ PlanIsPerRow
      /\ \A i \in DOMAIN source_rows :
            \A k \in DOMAIN UpdatesFor(source_rows[i]) :
               LET op == UpdatesFor(source_rows[i])[k]
                   drow == MatchedRow(source_rows[i])
               IN  /\ drow # <<>>
                   /\ op.id = drow[1].id
                   /\ \A c \in DOMAIN op.cells : ~CellUnchanged(op.cells[c], drow[1])

\* C18 for the tracked status cell of the list-indexed jobs alone: it is in
\* the Update only if the destination holds another value.
C18_TrackedCellOnlyWhenChanged ==
    (Planned /\ job # "foundation") =>
       \A i \in DOMAIN source_rows :
          \A k \in DOMAIN UpdatesFor(source_rows[i]) :
             \A c \in DOMAIN UpdatesFor(source_rows[i])[k].cells :
                LET cell == UpdatesFor(source_rows[i])[k].cells[c]
                IN  cell.columnId \in {DEST_TRACKED_COL(job), DEST_NTP_DATE_COL(job)}
                       => ~CellUnchanged(cell, MatchedRow(source_rows[i])[1])

(***************************************************************************)
(* Duplicate destination rows (sync jobs)                                  *)
(***************************************************************************)
\* The rows of the destination sheet, in sheet order, that hold the job's
\* row-type literal and a tank value of the given key.
RowsOfKey(key) ==
    SelectSeq(dest_sheet,
        LAMBDA r : /\ cell_value(r.cells, DEST_ROW_COL(job)) = Str(ROW_VALUE_DEST(job))
                   /\ ~is_blank(cell_value(r.cells, DEST_TANK_COL(job)))
                   /\ tank_key_of(cell_value(r.cells, DEST_TANK_COL(job))) = key)

\* The tank key build_operations looks a source row up with.
KeyOfSource(srow) == tank_key_of(cell_value(srow.cells, SRC_TANK_COL))

\* A source row that is planned and whose key has destination rows.
HasDestination(srow) ==
    ~is_skipped(job, srow.cells) /\ RowsOfKey(KeyOfSource(srow)) # <<>>

\* C19: when several destination rows have the expected row-type and the
\* same tank key, the row diffed and updated is the first of them in sheet
\* order, in every sync job; a later duplicate is never the update target.
C19_FirstDuplicateWins ==
    Planned =>
       \A i \in DOMAIN source_rows :
          HasDestination(source_rows[i]) =>
             LET first == RowsOfKey(KeyOfSource(source_rows[i]))[1]
             IN  /\ MatchedRow(source_rows[i]) = <<first>>
                 /\ \A k \in DOMAIN UpdatesFor(source_rows[i]) :
                       UpdatesFor(source_rows[i])[k].id = first.id

\* C19 (as the code behaves, list-indexed jobs): the first candidate in
\* sheet order is the row diffed and updated.
C19_ListIndexTakesFirst ==
    job # "foundation" => C19_FirstDuplicateWins

\* C19 (as the code behaves, identity-foundation-sync): the index keeps the
\* last row of a key that passes the indexer's test, and that row is the
\* one diffed and updated.
C19_SingleRowIndexTakesLast ==
    (Planned /\ job = "foundation") =>
       \A i \in DOMAIN source_rows :
          LET owned == OwnedUnder(KeyOfSource(source_rows[i]))
          IN  (~is_skipped(job, source_rows[i].cells) /\ owned # <<>>) =>
                 /\ MatchedRow(source_rows[i]) = <<owned[Len(owned)]>>
                 /\ \A k \in DOMAIN UpdatesFor(source_rows[i]) :
                       UpdatesFor(source_rows[i])[k].id = owned[Len(owned)].id

(***************************************************************************)
(* Eligibility of source rows in build_operations (sync jobs)              *)
(***************************************************************************)
\* The static eligibility predicate on the stripped row-type and order and
\* on the tank value.
IsProjectRow(scells) ==
    /\ str_value(scells, SRC_ROW_COL) = "Project"
    /\ str_value(scells, SRC_ORDER_COL) = "0000 - Project"
    /\ ~is_blank(cell_value(scells, SRC_TANK_COL))

\* The source row adds nothing to the plan.
NothingPlanned(srow) ==
    /\ plan_row(job, srow, dest_index).inserts = <<>>
    /\ plan_row(job, srow, dest_index).updates = <<>>

\* C20: build_operations of every sync job emits neither an Insert nor an
\* Update for a source row unless its row-type is "Project", its order is
\* "0000 - Project" and its tank value is non-empty, for any list of source
\* rows it is called with.
C20_OnlyProjectRowsPlanned ==
    Planned =>
      /\ PlanIsPerRow
      /\ \A i \in DOMAIN source_rows :
            ~IsProjectRow(source_rows[i].cells) => NothingPlanned(source_rows[i])

\* C20 (as the code behaves): the property holds in the two list-indexed
\* jobs for any list of source rows, and in identity-foundation-sync for
\* the rows list_all_source_project_rows returns.
C20_OnlyProjectRowsPlannedWhereGuarded ==
    (job # "foundation" \/ PlannedByMain) => C20_OnlyProjectRowsPlanned

(***************************************************************************)
(* Numeric normalization of the tank component                             *)
(***************************************************************************)
\* The integer a tank value denotes, -1 when it is not a number.
DenotedInteger(v) ==
    IF v.t = "num" THEN v.n
    ELSE IF v.t = "str" /\ v.s \in {"10", "010", "10.0", " 10", "10 "} THEN 10
    ELSE IF v.t = "str" /\ v.s = "11" THEN 11
    ELSE IF v.t = "str" /\ v.s = "12" THEN 12
    ELSE -1

\* The key component of a tank value as the specification defines it: the
\* integer rendered in decimal, or the trimmed lower-cased string.
NormalizedTank(v) ==
    IF DenotedInteger(v) # -1 THEN ToString(DenotedInteger(v))
    ELSE lower(strip(py_str(v)))

\* The tank values of the single source row and the single destination row.
SourceTank ==
    cell_value(source_sheet[1].cells,
               IF job \in SyncJobs THEN SRC_TANK_COL ELSE SRC_COL_TANK)
DestTank ==
    IF job \in SyncJobs THEN cell_value(dest_sheet[1].cells, DEST_TANK_COL(job))
    ELSE cell_value(dest_store[SheetA][1].cells, "101")

\* The run has looked the destination row up.
TankPlanned ==
    IF job \in SyncJobs THEN PlannedByMain ELSE pc \in {"put", "returned"}

\* The destination row was found to be the row of the source row: matched
\* by the planner of a sync job, not flagged by project-missing-check
\* (set to False by __init__copy1.py), given the source status by
\* status-update.
TankMatched ==
    IF job \in SyncJobs THEN inserts = <<>> /\ MatchedRow(source_rows[1]) # <<>>
    ELSE IF job = "missing" THEN plans[1].updates = <<>>
    ELSE IF job = "missing_copy1"
    THEN plans[1].updates[1].cells[1].value = Bool(FALSE)
    ELSE /\ plans[1].updates # <<>>
         /\ plans[1].updates[1].cells[1].value = Str("Active")

\* C21: tank values that denote the same integer normalize to the same
\* string and match across source and destination, and a value that is not
\* a number is matched by its trimmed lower-cased string; in normalize_tank
\* and in the tank keys of the sync jobs' index and planner.
C21_TankMatchedNumerically ==
    TankPlanned => (TankMatched <=> NormalizedTank(SourceTank) = NormalizedTank(DestTank))

\* C21 (as the code behaves, project-missing-check and status-update):
\* normalize_tank gives the normalized component and the rows match on it.
C21_KeyJobsMatchNumerically ==
    (job \in KeyJobs /\ TankPlanned) =>
        /\ normalize_tank(SourceTank) = NormalizedTank(SourceTank)
        /\ normalize_tank(DestTank) = NormalizedTank(DestTank)
        /\ DOMAIN src_map = { NormalizedTank(SourceTank) \o "|austin|tx" }
        /\ TankMatched <=> NormalizedTank(SourceTank) = NormalizedTank(DestTank)

\* C21 (as the code behaves, sync jobs): the index and the planner use the
\* trimmed text of the tank value, and rows match on that text only.
C21_SyncJobsMatchOnTrimmedText ==
    (job \in SyncJobs /\ TankPlanned) =>
        /\ DOMAIN dest_index = { strip(py_str(DestTank)) }
        /\ TankMatched <=> strip(py_str(SourceTank)) = strip(py_str(DestTank))

(***************************************************************************)
(* Audit logging of project-smartsheet-updater                             *)
(***************************************************************************)
\* The requests to the sheet service, and the rows written to the audit
\* table, so far.
ServiceCalls == SelectSeq(calls, LAMBDA c : c.method \in {"GET", "PUT"})
AuditRows == SelectSeq(calls, LAMBDA c : c.method = "AUDIT")

\* The entries of the results list that report a matched row.
MatchedResults == { n \in DOMAIN results : "smartsheet" \in DOMAIN results[n] }

\* The request ended on a failed update of a matched row.
UpdateFailed ==
    /\ status_code = 500
    /\ ServiceCalls # <<>>
    /\ ServiceCalls[Len(ServiceCalls)].method = "PUT"
    /\ ServiceCalls[Len(ServiceCalls)].status = 500

\* A log_audit() call of the request did not reach the audit table: two
\* are made for every matched object, one for a failed update.
AuditLost ==
    Len(AuditRows) < 2 * Cardinality(MatchedResults) + (IF UpdateFailed THEN 1 ELSE 0)

\* The statements of log_audit() that failed during the request.
FailedStatements ==
    { calls[n].stmt : n \in { m \in DOMAIN calls :
                                calls[m].method = "SQL" /\ ~calls[m].ok } }

\* The PUT of the row a matched result reports was made and succeeded.
RowUpdated(entry) ==
    \E n \in DOMAIN calls :
        /\ calls[n].method = "PUT" /\ calls[n].status = 200
        /\ calls[n].sheet = entry.smartsheet.sheetId
        /\ calls[n].body[1].id = entry.smartsheet.rowId

\* C22: no exception leaves log_audit, whichever of connect, execute,
\* commit and close fails: the handler of a failed update is entered only
\* after a PUT that failed, and a failure of the audit store changes
\* neither the HTTP status (500 is answered only for an invalid department
\* or a failed request to the sheet service), nor the results (one entry
\* per object processed), nor whether the row update is performed.
C22_AuditFailureChangesNothing ==
    job = "updater" =>
        /\ pc = "audit_failure" =>
              ServiceCalls[Len(ServiceCalls)] =
                  Call("PUT", resolve_candidate_sheet(payload[cursor]),
                       << [id |-> matched_row.id,
                           cells |-> build_smartsheet_updates(payload[cursor],
                               get_column_map(resolve_candidate_sheet(payload[cursor])))] >>,
                       500)
        /\ status_code = 500 =>
              /\ cursor <= Len(payload)
              /\ \/ department_invalid(payload[cursor])
                 \/ /\ ServiceCalls # <<>>
                    /\ ServiceCalls[Len(ServiceCalls)].status = 500
        /\ Len(results) = cursor - 1
        /\ status_code = 200 => Len(results) = Len(payload)
        /\ ~DRY_RUN => \A n \in MatchedResults : RowUpdated(results[n])

\* A request with two matched objects answered 200, both rows updated,
\* although a statement of log_audit failed while the first object was
\* processed and its audit row is lost.
C22_Witness ==
    /\ job = "updater" /\ ~DRY_RUN
    /\ status_code = 200
    /\ Cardinality(MatchedResults) = 2
    /\ \A n \in MatchedResults : RowUpdated(results[n])
    /\ FailedStatements # {}
    /\ AuditLost
    /\ \E n \in DOMAIN calls :
          /\ calls[n].method = "SQL" /\ ~calls[n].ok
          /\ \E m \in n + 1..Len(calls) : calls[m].method = "PUT"
(***************************************************************************)
(* Overlapping invocations of a sync job                                   *)
(***************************************************************************)
\* Both invocations have returned.
BothReturned == pc = "returned" /\ other.pc = "returned"

\* Both invocations built the same destination index: when there is
\* something to insert, the second one indexed before the first one wrote.
SameView == dest_index = other.dest_index

\* The rows of the destination sheet that were inserted during the runs,
\* and those among them an Insert operation produced.
InsertedRows == { m \in DOMAIN dest_sheet : dest_sheet[m].id > 1000 }
RowsInsertedBy(op) ==
    { m \in InsertedRows : dest_sheet[m].cells = write_cells(EmptyDict, op.cells) }

\* The POST requests of the two runs that carry the Insert operation.
PostsOf(op) ==
    { n \in DOMAIN calls :
        calls[n].method = "POST" /\ \E k \in DOMAIN calls[n].body : calls[n].body[k] = op }

\* C23: an invocation of a sync job is never held back by another one of
\* the same job: whatever the running invocation is doing, the other can
\* take its next step.  When both have built the same destination index,
\* the second one before the first one wrote, and both have returned, each
\* Insert planned for an eligible tank key without a destination row was
\* sent by both, and the destination holds two rows of the job's row-type
\* for that key.
C23_OverlapInsertsTwice ==
    (job \in SyncJobs /\ other # NoInvocation) =>
        /\ other.pc \notin {"returned", "raised"} => ENABLED Switch
        /\ (BothReturned /\ SameView) =>
              /\ inserts = other.inserts
              /\ Cardinality(InsertedRows) = 2 * Len(inserts)
              /\ \A n \in DOMAIN inserts :
                    /\ Cardinality(PostsOf(inserts[n])) >= 2
                    /\ Cardinality(RowsInsertedBy(inserts[n])) >= 2
                    /\ \A m \in RowsInsertedBy(inserts[n]) : is_indexed(job, dest_sheet[m])

\* Both invocations have returned after inserting a row for the same tank:
\* the destination holds two rows of the job's row-type for one tank key.
C23_Witness ==
    /\ job \in SyncJobs /\ other # NoInvocation
    /\ BothReturned /\ SameView
    /\ Len(inserts) = 1
    /\ Cardinality(PostsOf(inserts[1])) = 2
    /\ \E a \in InsertedRows, b \in InsertedRows :
          /\ a # b
          /\ is_indexed(job, dest_sheet[a]) /\ is_indexed(job, dest_sheet[b])
          /\ cell_value(dest_sheet[a].cells, DEST_TANK_COL(job))
                = cell_value(dest_sheet[b].cells, DEST_TANK_COL(job))
(***************************************************************************)
(* Cells of one operation (sync jobs)                                      *)
(***************************************************************************)
\* No columnId is named by two cells of the list.
EachColumnOnce(cells) ==
    \A a \in DOMAIN cells, b \in DOMAIN cells :
        a # b => cells[a].columnId # cells[b].columnId

\* C24: every Insert and every Update emitted by build_operations of a sync
\* job names each destination columnId at most once in its cells list.
C24_EachOperationNamesColumnOnce ==
    Planned =>
      /\ \A n \in DOMAIN inserts : EachColumnOnce(inserts[n].cells)
      /\ \A n \in DOMAIN updates : EachColumnOnce(updates[n].cells)

\* C24 (as the code behaves): Updates of all three jobs and Inserts of the
\* two list-indexed jobs name each column once; an Insert of
\* identity-foundation-sync names the Row column twice, in its last cell
\* and in the one forced after the mapped cells, both with the same value.
C24_OnlyFoundationInsertRepeatsRow ==
    Planned =>
      /\ \A n \in DOMAIN updates : EachColumnOnce(updates[n].cells)
      /\ \A n \in DOMAIN inserts :
            LET cells == inserts[n].cells
            IN  IF job # "foundation" THEN EachColumnOnce(cells)
                ELSE /\ EachColumnOnce(SubSeq(cells, 1, Len(cells) - 1))
                     /\ cells[Len(cells)] = Cell(DEST_ROW_COL(job), Str(ROW_VALUE_FRONTEND))
                     /\ cells[Len(cells) - 3] = cells[Len(cells)]

(***************************************************************************)
(* Operations per tank key in one planning pass (sync jobs)                *)
(***************************************************************************)
\* The tank key an Insert is for: the stripped text of its tank cell.
InsertTank(op) ==
    LET k == CHOOSE k \in DOMAIN op.cells : op.cells[k].columnId = DEST_TANK_COL(job)
    IN  tank_key_of(op.cells[k].value)

NoRowUpdatedTwice ==
    \A a \in DOMAIN updates, b \in DOMAIN updates :
        a # b => updates[a].id # updates[b].id
NoTankInsertedTwice ==
    \A a \in DOMAIN inserts, b \in DOMAIN inserts :
        a # b => InsertTank(inserts[a]) # InsertTank(inserts[b])

\* C25: within one planning pass of a sync job each tank key yields at most
\* one operation: no destination row id appears in more than one Update and
\* no tank key gets more than one Insert, also when several eligible source
\* rows carry the same tank value.
C25_OneOperationPerTank ==
    PlannedByMain => NoRowUpdatedTwice /\ NoTankInsertedTwice

\* C25 (as the code behaves): the pass yields at most one operation per
\* source row, each planned against the index built before the pass.
C25_OneOperationPerSourceRow ==
    PlannedByMain =>
      /\ PlanIsPerRow
      /\ \A i \in DOMAIN source_rows :
            LET p == plan_row(job, source_rows[i], dest_index)
            IN  Len(p.inserts) + Len(p.updates) <= 1

\* The two halves of C25 taken apart: the Inserts of a pass are for distinct
\* tanks, its Updates for distinct destination rows.
C25_InsertsAreForDistinctTanks == PlannedByMain => NoTankInsertedTwice
C25_UpdatesAreForDistinctRows == PlannedByMain => NoRowUpdatedTwice

(***************************************************************************)
(* Convergence of the sync jobs                                            *)
(***************************************************************************)
\* The first run has returned and the second one has planned.
SecondRunPlanned ==
    /\ other # NoInvocation /\ other.id = 0
    /\ pc \in {"insert", "update", "save", "returned"}
    /\ source_rows # <<>>

\* C26: if the planned inserts and updates of one run are all applied
\* successfully and the source does not change, the next run plans zero
\* inserts and zero updates.
C26_SecondRunPlansNothing ==
    SecondRunPlanned => inserts = <<>> /\ updates = <<>>

\* C26, last clause: a run never re-emits the same Update forever.  A
\* second run that ends on the destination it started from has planned
\* nothing (else every later run plans what it planned).
C26_NoUpdateForever ==
    (SecondRunPlanned /\ pc = "returned" /\ index_dest(job, dest_sheet) = dest_index)
        => updates = <<>>

\* C26 (as the code behaves): identity-foundation-sync, which compares
\* normalized values, plans no Update in the second run when the first run
\* planned for each tank key once.
C26_FoundationConvergesOnDistinctTanks ==
    (SecondRunPlanned /\ job = "foundation"
       /\ \A a \in DOMAIN source_rows, b \in DOMAIN source_rows :
             a # b => tank_key_of(cell_value(source_rows[a].cells, SRC_TANK_COL))
                        # tank_key_of(cell_value(source_rows[b].cells, SRC_TANK_COL)))
        => updates = <<>> /\ inserts = <<>>

(***************************************************************************)
(* Row-type test of the index and of the planner (list-indexed jobs)       *)
(***************************************************************************)
\* The planner's row-type disambiguation accepts the destination row.
AcceptedByPlanner(j, drow) ==
    cell_value(drow.cells, DEST_ROW_COL(j)) = Str(ROW_VALUE_DEST(j))

\* The tank key of a source row that passes the eligibility tests.
EligibleKey(srow) == tank_key_of(cell_value(srow.cells, SRC_TANK_COL))

\* C27: in the list-indexed jobs every destination row retained in the
\* index under a tank key is accepted by the planner's row-type test, so a
\* tank key that has an indexed destination row is never treated as absent
\* and never leads to an Insert.
C27_IndexAndPlannerAgree ==
    (Planned /\ job # "foundation") =>
      /\ \A key \in DOMAIN dest_index :
            \A n \in DOMAIN dest_index[key] :
                AcceptedByPlanner(job, dest_index[key][n])
      /\ \A i \in DOMAIN source_rows :
            (~is_skipped(job, source_rows[i].cells)
               /\ EligibleKey(source_rows[i]) \in DOMAIN dest_index)
              => plan_row(job, source_rows[i], dest_index).inserts = <<>>

\* C27 (as the code behaves): the index retains the rows whose row-type is
\* the literal after trimming, and a tank key leads to no Insert when one of
\* its indexed rows holds the literal untrimmed.
C27_AgreeOnUntrimmedLiteral ==
    (Planned /\ job # "foundation") =>
      /\ \A key \in DOMAIN dest_index :
            \A n \in DOMAIN dest_index[key] :
                strip(py_str(cell_value(dest_index[key][n].cells, DEST_ROW_COL(job))))
                    = ROW_VALUE_DEST(job)
      /\ \A i \in DOMAIN source_rows :
            (/\ ~is_skipped(job, source_rows[i].cells)
             /\ EligibleKey(source_rows[i]) \in DOMAIN dest_index
             /\ \E n \in DOMAIN dest_index[EligibleKey(source_rows[i])] :
                   AcceptedByPlanner(job, dest_index[EligibleKey(source_rows[i])][n]))
              => plan_row(job, source_rows[i], dest_index).inserts = <<>>

(***************************************************************************)
(* Failed fetch of the source sheet (project-missing-check, status-update) *)
(***************************************************************************)
\* The GET of the source sheet was answered with an error status.
SourceFetchFailed ==
    /\ calls # <<>>
    /\ calls[1].method = "GET" /\ calls[1].sheet = SOURCE_SHEET_ID
    /\ calls[1].status # 200

\* The PUTs the run has issued to destination sheets.
DestinationWrites == SelectSeq(calls, LAMBDA c : c.method = "PUT")

\* C28: in project-missing-check and status-update, if the fetch of the
\* source sheet fails the run issues no write to any destination sheet.
C28_NoWriteAfterFailedSourceFetch ==
    (job \in KeyJobs /\ SourceFetchFailed) => DestinationWrites = <<>>

\* The destination row an operation of a write addresses.
WrittenRow(op) ==
    CHOOSE row \in UNION { Range(p.rows) : p \in Range(plans) } : row.id = op.id

\* C28 (as the code behaves): project-missing-check/__init__.py stops at
\* the failed fetch; status-update goes on with an empty source map, and
\* what it writes are empty statuses; __init__copy1.py goes on with an
\* empty key set and sets every row with a valid key to True.
C28_OnlyInitModuleStops ==
    (job \in KeyJobs /\ SourceFetchFailed) =>
        CASE job = "missing" -> DestinationWrites = <<>> /\ pc = "fatal"
          [] job = "missing_copy1" ->
               /\ src_map = EmptyDict
               /\ \A n \in DOMAIN DestinationWrites :
                     \A k \in DOMAIN DestinationWrites[n].body :
                        LET op == DestinationWrites[n].body[k]
                        IN  op.cells =
                              << Cell("104",
                                      Bool(DestKeyOf(WrittenRow(op),
                                               [tank |-> "101", city |-> "102",
                                                state |-> "103"]) # "")) >>
          [] job = "status" ->
               /\ src_map = EmptyDict
               /\ \A n \in DOMAIN DestinationWrites :
                     \A k \in DOMAIN DestinationWrites[n].body :
                        \A c \in DOMAIN DestinationWrites[n].body[k].cells :
                           DestinationWrites[n].body[k].cells[c].value = Str("")
(***************************************************************************)
(* Destination rows without a source project (status-update)               *)
(***************************************************************************)
\* The key of the destination row has an entry in the source map.
HasSourceEntry(row, cols) == dest_key(row.cells, cols) \in DOMAIN src_map

\* C30: status-update changes the status of a destination row only if the
\* row's key tank|city|state has an entry in the source map; a destination
\* row with no matching source project keeps its existing status.
C30_StatusChangedOnlyOnSourceMatch ==
    job = "status" =>
      \A p \in Range(plans) :
         LET cols == DEST_SHEETS[p.sheet].cols
         IN  \A row \in Range(p.rows) : \A u \in Range(p.updates) :
                u.id = row.id => HasSourceEntry(row, cols)

\* C30 (as the code behaves): a destination row whose key has no entry in
\* the source map is updated exactly when it holds a status, and the update
\* sets its status to the empty string.
C30_UnmatchedRowWithStatusIsBlanked ==
    job = "status" =>
      \A p \in Range(plans) :
         LET cols == DEST_SHEETS[p.sheet].cols
         IN  \A row \in Range(p.rows) :
                (~HasSourceEntry(row, cols) /\ ~plan_raises(job, p.rows, cols, src_map)) =>
                   /\ (\E u \in Range(p.updates) : u.id = row.id)
                        <=> ( /\ status_text(cell_value(row.cells, cols.status)) # ""
                              /\ ~( /\ normalize_tank(cell_value(row.cells, cols.tank)) = ""
                                    /\ str_value(row.cells, cols.city) = ""
                                    /\ str_value(row.cells, cols.state) = "" ) )
                   /\ \A u \in Range(p.updates) :
                         u.id = row.id => u.cells = << Cell(cols.status, Str("")) >>

(***************************************************************************)
(* Row updates and the response of project-smartsheet-updater              *)
(***************************************************************************)
\* The row updates the request has performed: the PUTs that succeeded.
RowsModified == SelectSeq(calls, LAMBDA c : c.method = "PUT" /\ c.status = 200)

Responded(code) == job = "updater" /\ pc = "responded" /\ status_code = code

\* C29: every row update performed during a request is reported in that
\* request's response: if the response is HTTP 500 no row was modified by
\* the request.
C29_ErrorResponseMeansNoRowModified ==
    Responded(500) => RowsModified = <<>>

\* C29 (as the code behaves): a response of 200 reports every row update of
\* the request; a response of 500 comes with the row updates of the objects
\* before the failing one, which its body does not report.
C29_OnlySuccessResponseReportsUpdates ==
    /\ Responded(200) =>
          /\ Len(RowsModified) = (IF DRY_RUN THEN 0 ELSE Cardinality(MatchedResults))
          /\ \A n \in DOMAIN RowsModified :
                \E k \in MatchedResults :
                    /\ results[k].smartsheet.sheetId = RowsModified[n].sheet
                    /\ results[k].smartsheet.rowId = RowsModified[n].body[1].id
    /\ Responded(500) =>
          /\ Len(RowsModified) = (IF DRY_RUN THEN 0 ELSE Cardinality(MatchedResults))
          /\ Len(RowsModified) <= cursor - 1

====
